---- MODULE Spec2Model ----
(***************************************************************************)
(* LocalTrafficProvider and _TrafficActor of smarts/core/                  *)
(* local_traffic_provider.py as a state machine.                           *)
(*                                                                         *)
(* The road map is the external RoadMap interface; it is instantiated by   *)
(* a ring of two roads E1 -> E2 -> E1 with NumLanes straight lanes each,   *)
(* LaneLen cells long, and by the same ring with a junction between the    *)
(* end of E2 and the start of E1: there E2 still reports E1 as its         *)
(* outgoing road, while a point inside the junction lies on the lanes of   *)
(* the junction's own road J, which is on no route.  A pose is             *)
(* <<road, lane index, s>>: the lane the map finds for the point, a lane   *)
(* of a route road where there is one within reach, and the offset along   *)
(* it.  Lengths are in cells, speeds in cells per tick, dt is one tick.    *)
(* A bounding box is the set of cells it touches, so two boxes intersect   *)
(* iff they share a cell.                                                  *)
(*                                                                         *)
(* Spec is the provider under every call of the host, SpecTick the same    *)
(* with step() taken one loop body at a time, SpecDrive the provider set   *)
(* up and then stepped for a long drive on both maps, SpecTwin two runs    *)
(* of the provider given the same calls, SpecCover the function            *)
(* utils.kinematics.time_to_cover on its own and SpecCutin the lane        *)
(* choice of one actor, tick after tick.                                   *)
(***************************************************************************)
EXTENDS Integers, Sequences, FiniteSets, TLC

VARIABLES
    endless_traffic,   \* LocalTrafficProvider._endless_traffic
    road_map,          \* the scenario's road map, LocalTrafficProvider.road_map
    phase,             \* "new" before setup(), "ready" after it
    flows,             \* LocalTrafficProvider._flows, in document order
    my_actors,         \* LocalTrafficProvider._my_actors, in insertion order
    other_vehicles,    \* LocalTrafficProvider._other_vehicles: id -> [state, route, shared]
    reserved_areas,    \* LocalTrafficProvider._reserved_areas: id -> polygon
    route_lane_lengths, \* LocalTrafficProvider._route_lane_lengths: route -> (lane, r_ind) -> length
    actors_created,    \* LocalTrafficProvider._actors_created
    clock,             \* the host's elapsed_sim_time
    calls,             \* how many calls the host made that count for MaxCalls
    last_call,         \* the last host call: what it was given and how it ended
    emit_log,          \* history: per flow, its emissions and rejections
    pc,                \* "tick" while a step() is inside its two loops, else "idle"
    idx,               \* how far the running step() is in TickSchedule
    seen,              \* history: the loop bodies of the last step(), in order
    kin,               \* the last call of utils.kinematics.time_to_cover and its result
    lens,              \* a call of _cache_route_lengths on a lane graph: graph, route, table
    decide,            \* one _TrafficActor's lane window and acceleration on a scene
    boxes,             \* the poses of the managed actors and the lru_cache of _TrafficActor.bbox
    cutin,             \* the lane-change fields of one _TrafficActor across _pick_lane calls
    twin               \* two runs of the provider that are given the same calls

provider_vars ==
    <<endless_traffic, road_map, phase, flows, my_actors, other_vehicles, reserved_areas,
      route_lane_lengths, actors_created, clock, calls, last_call, emit_log, pc, idx, seen>>

vars == <<provider_vars, kin, cutin, lens, decide, boxes, twin>>

----------------------------------------------------------------------------
(* Bounds of the exploration *)

(* How many calls the host makes after the construction, not counting     *)
(* setup, which it calls once, sync, which it calls at most once, right   *)
(* after setup and after a step, and the reservations.                    *)
MaxCalls == 3

(* How many steps the host makes where it makes no other call after setup *)
MaxDrive == 10

(* The scenario: road map, vehicle dimensions and vType parameters *)

NumLanes == 1
LaneLen == 6
HalfLen == 1
MinSpaceCush == 1
Tau == 1
EmergencyDecel == 2
MaxAccel == 1
MaxDecel == 1
SpeedLimit == 2
DT == 1

(* The length of the lanes of the junction road *)
JunctionLen == 2

RoadMaps == {"ring", "junction"}

JunctionRoad == "J"

Roads == IF road_map = "junction" THEN {"E1", "E2", JunctionRoad} ELSE {"E1", "E2"}

(* road.outgoing_roads, which passes over the junction road *)
OutgoingRoads(r) == IF r = "E1" THEN {"E2"} ELSE {"E1"}

(* The road of lane.outgoing_lanes, and the road of lane.incoming_lanes:   *)
(* the road a point passes on to at the end of r, and comes from at its    *)
(* start.                                                                  *)
NextRoad(r) ==
    IF r = "E1" THEN "E2"
    ELSE IF r = "E2" /\ JunctionRoad \in Roads THEN JunctionRoad
    ELSE "E1"

PrevRoad(r) ==
    IF r = "E2" THEN "E1"
    ELSE IF r = "E1" /\ JunctionRoad \in Roads THEN JunctionRoad
    ELSE "E2"

(* lane.length *)
LaneLength(r) == IF r = JunctionRoad THEN JunctionLen ELSE LaneLen

RoadBase(r) == IF r = "E1" THEN 0 ELSE IF r = "E2" THEN LaneLen ELSE 2 * LaneLen

RingLen == 2 * LaneLen + (IF JunctionRoad \in Roads THEN JunctionLen ELSE 0)

(* RouteLoop ends on a road that leads back to its first road; RouteOpen   *)
(* does not.                                                               *)
RouteLoop == <<"E1", "E2">>
RouteOpen == <<"E1">>
Routes == {RouteLoop, RouteOpen}

(* A route no flow of the scenario has, and the routes the host gives to   *)
(* a vehicle that already has one                                          *)
RouteBack == <<"E2", "E1">>
NewRoutes == Routes \cup {RouteBack}

(* The values random.random() * lane.length is drawn from *)
RandomOffsets == {1, LaneLen - 1}

SourceStr == "LocalTrafficProvider"
OtherSource == "AgentsProvider"

(* flow.get("last_added") is None *)
NoTime == 0 - 1

Min(a, b) == IF a <= b THEN a ELSE b
Max(a, b) == IF a >= b THEN a ELSE b

Range(s) == {s[i] : i \in DOMAIN s}

----------------------------------------------------------------------------
(* Geometry: Pose, shapely boxes and the lane graph *)

PosRoad(pos) == pos[1]
PosLane(pos) == <<pos[1], pos[2]>>
PosS(pos) == pos[3]

(* The cell of the ring that offset c of road r lies on *)
Cell(r, c) == (RoadBase(r) + c + RingLen) % RingLen

(* _TrafficActor.bbox(cushion_length): the box around the pose, lengthened *)
(* by min_space_cush at both ends when cushion_length is set.              *)
Bbox(pos, cushion_length) ==
    LET length_buffer == IF cushion_length THEN MinSpaceCush ELSE 0
        half_len == HalfLen + length_buffer
    IN  {<<pos[2], Cell(pos[1], c)>> : c \in (pos[3] - half_len)..(pos[3] + half_len)}

(* Polygon.intersects *)
Intersects(a, b) == a \cap b # {}

(* The pose reached from pos after driving dist cells along its lane and   *)
(* the lanes it leads to, or back along the lanes that lead to it when     *)
(* dist is negative.                                                       *)
RECURSIVE Advance(_, _)
Advance(pos, dist) ==
    IF pos[3] + dist > LaneLength(pos[1])
    THEN Advance(<<NextRoad(pos[1]), pos[2], 0>>, pos[3] + dist - LaneLength(pos[1]))
    ELSE IF pos[3] + dist < 0
    THEN Advance(<<PrevRoad(pos[1]), pos[2], LaneLength(PrevRoad(pos[1]))>>, pos[3] + dist)
    ELSE <<pos[1], pos[2], pos[3] + dist>>

----------------------------------------------------------------------------
(* The traffic specification: _load_traffic_flows *)

PosRandom == [kind |-> "random", v |-> 0]
PosAt(n) == [kind |-> "num", v |-> n]
SpeedMax == [kind |-> "max", v |-> 0]
SpeedOf(n) == [kind |-> "num", v |-> n]

Flow(fid, route, begin, end, period, departPos, departSpeed) ==
    [id |-> fid, vtype |-> "car", route |-> route, begin |-> begin, end |-> end,
     emit_period |-> period, departLane |-> 0, departPos |-> departPos,
     departSpeed |-> departSpeed, arrivalLane |-> 0, arrivalPos |-> PosAt(LaneLen - 3),
     has_depart |-> TRUE, last_added |-> NoTime]

(* The traffic specification of the scenario: two flows of the same vType  *)
(* leaving from the same lane, the second one only during the first        *)
(* second.                                                                 *)
TrafficSpecs ==
    {<<Flow("f1", RouteLoop, 0, MaxCalls + 1, 2, PosAt(1), SpeedOf(1)),
       Flow("f2", RouteOpen, 0, 1, 1, PosRandom, SpeedMax)>>}

----------------------------------------------------------------------------
(* _TrafficActor: construction *)

ActorIds(actors) == {actors[i].state.vehicle_id : i \in DOMAIN actors}

ActorIndex(actors, id) == CHOOSE i \in DOMAIN actors : actors[i].state.vehicle_id = id

(* self._my_actors[actor_id] = actor: a new key is appended to the dict's  *)
(* order, an existing key keeps its place.                                 *)
DictPut(actors, actor) ==
    IF actor.state.vehicle_id \in ActorIds(actors)
    THEN [actors EXCEPT ![ActorIndex(actors, actor.state.vehicle_id)] = actor]
    ELSE Append(actors, actor)

(* del self._my_actors[id] for every id of ids *)
DictDel(actors, ids) ==
    SelectSeq(actors, LAMBDA a : a.state.vehicle_id \notin ids)

(* flow[depart_arrival + "Lane"] and flow[depart_arrival + "Pos"] exist *)
HasFlowPos(flow, depart_arrival) == depart_arrival = "arrival" \/ flow.has_depart

(* _TrafficActor._resolve_flow_pos; draw is the value of random.random() * length *)
ResolveFlowPos(flow, route, depart_arrival, draw) ==
    LET road_id  == IF depart_arrival = "depart" THEN route[1] ELSE route[Len(route)]
        lane_ind == IF depart_arrival = "depart" THEN flow.departLane ELSE flow.arrivalLane
        token    == IF depart_arrival = "depart" THEN flow.departPos ELSE flow.arrivalPos
        offset   == IF token.kind = "random" THEN draw ELSE token.v
    IN  <<road_id, lane_ind, offset>>

(* _TrafficActor._resolve_flow_pos raises no Exception: the lane index is  *)
(* one of the road's and a numeric offset lies on the lane.                *)
ResolveFlowPosOk(flow, route, depart_arrival) ==
    LET road_id  == IF depart_arrival = "depart" THEN route[1] ELSE route[Len(route)]
        lane_ind == IF depart_arrival = "depart" THEN flow.departLane ELSE flow.arrivalLane
        token    == IF depart_arrival = "depart" THEN flow.departPos ELSE flow.arrivalPos
    IN  /\ 0 <= lane_ind /\ lane_ind < NumLanes
        /\ token.kind = "num" => (0 <= token.v /\ token.v <= LaneLength(road_id))

(* _TrafficActor.from_flow raises no Exception *)
FromFlowOk(flow) ==
    /\ ResolveFlowPosOk(flow, flow.route, "depart")
    /\ ResolveFlowPosOk(flow, flow.route, "arrival")

(* _TrafficActor._resolve_flow_speed: "max" is min(maxSpeed, lane.speed_limit) *)
ResolveFlowSpeed(flow) ==
    IF flow.departSpeed.kind = "max" THEN SpeedLimit ELSE flow.departSpeed.v

(* A VehicleState; linear_acceleration is the component along the heading, *)
(* np.array((0.0, 0.0, 0.0)) where the provider builds the state.          *)
VehicleState(id, pos, speed, source, role) ==
    [vehicle_id |-> id, pos |-> pos, speed |-> speed, linear_acceleration |-> 0,
     source |-> source, role |-> role]

(* _TrafficActor.__init__ and the fields the two factories fill in; the    *)
(* history field looping is TRUE from the time _reroute sets the actor to  *)
(* loop until it is found on the first road of its route.                  *)
NewActor(state, flow, route, lane, offset, dest) ==
    [state |-> state, flow |-> [flow EXCEPT !.last_added = NoTime], route |-> route,
     route_ind |-> 0, lane |-> lane, offset |-> offset,
     dest_lane |-> PosLane(dest), dest_offset |-> PosS(dest),
     done_with_route |-> FALSE, off_route |-> FALSE, looping |-> FALSE,
     next_pos |-> state.pos, next_speed |-> state.speed,
     next_linear_acceleration |-> state.linear_acceleration]

(* from_flow with the vehicle id numbered by the flow's own emissions *)
FromFlowNumberedByFlow(flow, created, draw) ==
    LET depart == ResolveFlowPos(flow, flow.route, "depart", draw)
        state  == VehicleState(<<flow.vtype, IF flow.last_added = NoTime THEN 1 ELSE 2>>,
                               depart, ResolveFlowSpeed(flow), SourceStr, "Social")
    IN  NewActor(state, flow, flow.route, PosLane(depart), PosS(depart),
                 ResolveFlowPos(flow, flow.route, "arrival", draw))

(* _TrafficActor.from_flow; created is _actors_created after __init__ counted it *)
FromFlow(flow, created, draw) ==
    LET depart == ResolveFlowPos(flow, flow.route, "depart", draw)
        state  == VehicleState(<<flow.vtype, created>>, depart, ResolveFlowSpeed(flow),
                               SourceStr, "Social")
    IN  NewActor(state, flow, flow.route, PosLane(depart), PosS(depart),
                 ResolveFlowPos(flow, flow.route, "arrival", draw))

(* The flow dict from_state builds: a route and an arrival, nothing else *)
StateFlow(route) ==
    [id |-> "", vtype |-> "", route |-> route, begin |-> 0, end |-> 0,
     emit_period |-> 0, departLane |-> 0, departPos |-> PosAt(0),
     departSpeed |-> SpeedOf(0), arrivalLane |-> 0, arrivalPos |-> PosRandom,
     has_depart |-> FALSE, last_added |-> NoTime]

(* _TrafficActor.from_state *)
FromState(state, route, draw) ==
    LET flow == StateFlow(route)
    IN  NewActor(state, flow, route, PosLane(state.pos), PosS(state.pos),
                 ResolveFlowPos(flow, route, "arrival", draw))

----------------------------------------------------------------------------
(* Flow emission *)

(* The test of _add_actor_in_flow with the reserved areas left out *)
AddActorInFlowOkActorsOnly(actors, reserved, new_actor) ==
    \A i \in DOMAIN actors :
        ~Intersects(Bbox(actors[i].state.pos, FALSE), Bbox(new_actor.state.pos, TRUE))

(* LocalTrafficProvider._add_actor_in_flow: the actor made for the flow is *)
(* kept unless its padded box meets a reserved area or a managed actor.    *)
AddActorInFlowOk(actors, reserved, new_actor) ==
    LET new_actor_bbox == Bbox(new_actor.state.pos, TRUE)
    IN  /\ \A k \in DOMAIN reserved : ~Intersects(reserved[k], new_actor_bbox)
        /\ \A i \in DOMAIN actors :
               ~Intersects(Bbox(actors[i].state.pos, FALSE), new_actor_bbox)

(* The test with the emit_period condition left out *)
FlowDueInWindow(flow, sim_time) ==
    flow.begin <= sim_time /\ sim_time < flow.end

(* The test of _add_actors_for_time that a flow is due at sim_time *)
FlowDue(flow, sim_time) ==
    /\ flow.begin <= sim_time /\ sim_time < flow.end
    /\ (flow.last_added = NoTime \/ sim_time - flow.last_added >= flow.emit_period)

(* last_added set by every attempt, kept or not *)
LastAddedAlways(flow, sim_time, ok) == sim_time

(* last_added never set *)
LastAddedKept(flow, sim_time, ok) == flow.last_added

(* flow["last_added"] after an attempt at sim_time that ended ok *)
LastAddedAfter(flow, sim_time, ok) == IF ok THEN sim_time ELSE flow.last_added

(* The history of a flow: the sim times of its emissions, the sim time of  *)
(* the rejected attempt it has not made up for yet, and whether its        *)
(* attempt at sim time 0 met a reserved area.                              *)
NoLog == [times |-> <<>>, rejected |-> NoTime, reserved0 |-> FALSE]

LogAfter(log, sim_time, ok, reserved, new_actor) ==
    [times     |-> IF ok THEN Append(log.times, sim_time) ELSE log.times,
     rejected  |-> IF ok THEN NoTime ELSE sim_time,
     reserved0 |-> \/ log.reserved0
                   \/ /\ sim_time = 0
                      /\ \E k \in DOMAIN reserved :
                             Intersects(reserved[k], Bbox(new_actor.state.pos, TRUE))]

(* What a call did for a flow it did not find due *)
NoAttempt == [outcome |-> "none", pos |-> <<"", 0, 0>>, id |-> <<"", 0>>]

(* What a call did for a flow whose from_flow raised an Exception *)
Raised == [outcome |-> "raised", pos |-> <<"", 0, 0>>, id |-> <<"", 0>>]

(* One iteration of the loop of _add_actors_for_time, for flow number f.   *)
(* st = [actors, created, flows, log, attempts, fault]; an Exception of    *)
(* from_flow ends the loop and the call, once __init__ has counted the     *)
(* actor.                                                                  *)
AddActorsStep(st, f, sim_time, reserved, draw) ==
    LET flow == st.flows[f]
    IN  IF ~FlowDue(flow, sim_time)
        THEN [st EXCEPT !.attempts = Append(@, NoAttempt)]
        ELSE IF ~FromFlowOk(flow)
        THEN [st EXCEPT !.created = @ + 1, !.attempts = Append(@, Raised), !.fault = TRUE]
        ELSE LET created   == st.created + 1
                 new_actor == FromFlow(flow, created, draw)
                 ok        == AddActorInFlowOk(st.actors, reserved, new_actor)
             IN  [actors   |-> IF ok THEN DictPut(st.actors, new_actor) ELSE st.actors,
                  created  |-> created,
                  flows    |-> [st.flows EXCEPT ![f].last_added =
                                    LastAddedAfter(flow, sim_time, ok)],
                  log      |-> [st.log EXCEPT ![f] =
                                    LogAfter(@, sim_time, ok, reserved, new_actor)],
                  attempts |-> Append(st.attempts,
                                  [outcome |-> IF ok THEN "emitted" ELSE "rejected",
                                   pos |-> new_actor.state.pos,
                                   id |-> new_actor.state.vehicle_id]),
                  fault    |-> FALSE]

RECURSIVE AddActorsLoop(_, _, _, _, _)
AddActorsLoop(st, f, sim_time, reserved, draw) ==
    IF f > Len(st.flows) \/ st.fault THEN st
    ELSE AddActorsLoop(AddActorsStep(st, f, sim_time, reserved, draw),
                       f + 1, sim_time, reserved, draw)

(* LocalTrafficProvider._add_actors_for_time *)
AddActorsForTime(actors, created, fl, log, sim_time, reserved, draw) ==
    AddActorsLoop([actors |-> actors, created |-> created, flows |-> fl, log |-> log,
                   attempts |-> <<>>, fault |-> FALSE], 1, sim_time, reserved, draw)

----------------------------------------------------------------------------
(* The decide phase: _TrafficActor.compute_next_state *)

(* math.inf as a length *)
Infinity == 999

(* The acceleration below which time_to_cover takes its linear branch:     *)
(* abs(acc) < 1e9                                                          *)
BigAcc == 1000000000

(* Square roots are looked for up to MaxRoot, whose square is in the       *)
(* integers of the model                                                   *)
MaxRoot == 46339

(* A time is a fraction [n, d] with d >= 0; d = 0 is math.inf when n > 0   *)
(* and -math.inf when n < 0.  math.inf is also what numpy's division by a  *)
(* zero speed yields.                                                      *)
Time(n, d) == [n |-> n, d |-> d]
TimeInf == Time(1, 0)
TimeLess(a, b) == IF a.d = b.d THEN a.n < b.n ELSE a.n * b.d < b.n * a.d
TimeMin(a, b) == IF TimeLess(b, a) THEN b ELSE a
TimeMax(a, b) == IF TimeLess(a, b) THEN b ELSE a
Abs(x) == IF x < 0 THEN 0 - x ELSE x

(* _TrafficActor.acceleration: np.linalg.norm(linear_acceleration) *)
Acceleration(a) == Abs(a.state.linear_acceleration)
Sign(x) == IF x < 0 THEN 0 - 1 ELSE 1

(* x / speed *)
Div(x, speed) ==
    IF speed = 0 THEN TimeInf
    ELSE IF x >= Infinity THEN Time(Sign(speed), 0)
    ELSE Time(x * Sign(speed), Abs(speed))

(* math.sqrt of a square *)
Sqrt(n) == CHOOSE r \in 0..MaxRoot : r * r = n

(* time_to_cover without the test t >= 0 of its linear branch *)
TimeToCoverSigned(dist, speed, acc) ==
    IF dist = 0 THEN Time(0, 1)
    ELSE IF speed = 0 THEN TimeInf
    ELSE Div(dist, speed)

(* utils.kinematics.time_to_cover; the discriminant of its quadratic       *)
(* branch is a square for the inputs of the model.                         *)
time_to_cover(dist, speed, acc) ==
    IF dist = 0 THEN Time(0, 1)
    ELSE IF Abs(acc) < BigAcc
    THEN (IF speed = 0 THEN TimeInf
          ELSE LET t == Div(dist, speed)
               IN  IF ~TimeLess(t, Time(0, 1)) THEN t ELSE TimeInf)
    ELSE LET discriminant == speed * speed + 2 * acc * dist
         IN  IF discriminant < 0 THEN TimeInf
             ELSE LET rad == Sqrt(discriminant)
                      t1  == Time((rad - speed) * Sign(acc), Abs(acc))
                      t2  == Time((0 - (rad + speed)) * Sign(acc), Abs(acc))
                      mnt == TimeMin(t1, t2)
                      mxt == TimeMax(t1, t2)
                  IN  IF ~TimeLess(mnt, Time(0, 1)) THEN mnt
                      ELSE IF ~TimeLess(mxt, Time(0, 1)) THEN mxt
                      ELSE TimeInf

(* LocalTrafficProvider._all_states *)
AllStates(actors, others) ==
    {actors[i].state : i \in DOMAIN actors} \cup {others[k].state : k \in DOMAIN others}

(* The entry of _route_lane_lengths for (lane, r_ind) that                 *)
(* _cache_route_lengths computes on this map, Infinity where it has none.  *)
RouteLaneLength(route, lane, r_ind) ==
    IF r_ind + 1 \in DOMAIN route /\ route[r_ind + 1] = lane[1]
    THEN (Len(route) - r_ind) * LaneLen
         + (IF r_ind + 1 = Len(route) /\ route[1] = NextRoad(lane[1]) THEN 1 ELSE 0)
    ELSE Infinity

(* The vehicles _compute_lane_window finds ahead of the actor on its lane *)
VehiclesAhead(a, all_states) ==
    {ovs \in all_states : /\ ovs.vehicle_id # a.state.vehicle_id
                          /\ PosLane(ovs.pos) = a.lane
                          /\ PosS(a.state.pos) <= PosS(ovs.pos)}

FrontGap(a, ovs) ==
    Max((PosS(ovs.pos) - HalfLen) - (PosS(a.state.pos) + HalfLen), 0)

SetMin(S) == CHOOSE x \in S : \A y \in S : x <= y

(* _LaneWindow.gap of the actor's own lane *)
LaneGap(a, all_states) ==
    LET ahead == VehiclesAhead(a, all_states)
    IN  IF ahead = {} THEN Infinity ELSE SetMin({FrontGap(a, ovs) : ovs \in ahead})

(* _LaneWindow.time_left of the actor's own lane: the sooner of the end    *)
(* of the route and of closing in on a vehicle ahead.                      *)
LaneTimeLeft(a, all_states) ==
    LET my_offset == PosS(a.state.pos)
        in_table  == RouteLaneLength(a.route, a.lane, a.route_ind)
        path_len  == (IF in_table = Infinity THEN LaneLength(a.lane[1]) ELSE in_table)
                     - my_offset
        ttcs      == {time_to_cover(Max(FrontGap(a, ovs) - MinSpaceCush, 0),
                                    a.state.speed - ovs.speed,
                                    Acceleration(a)
                                        - Abs(ovs.linear_acceleration)) :
                         ovs \in VehiclesAhead(a, all_states)}
        lane_time_left == Div(Max(path_len, 0), a.state.speed)
    IN  IF \E t \in ttcs : TimeLess(t, lane_time_left)
        THEN CHOOSE t \in ttcs : \A u \in ttcs : ~TimeLess(u, t)
        ELSE lane_time_left

(* _TrafficActor._compute_acceleration with the lane kept.  In cells and   *)
(* ticks a cushion below tau or min_space_cush has severity 1 or more, and *)
(* the PID saturates at the vType's accel and decel.                       *)
ComputeAcceleration(a, all_states) ==
    LET speed     == a.state.speed
        gap       == LaneGap(a, all_states)
        time_cush == TimeMax(TimeMin(LaneTimeLeft(a, all_states), Div(gap, speed)),
                             Time(0, 1))
    IN  IF TimeLess(time_cush, Time(Tau, 1))
        THEN (IF speed > 0 THEN 0 - EmergencyDecel ELSE 0)
        ELSE IF gap < MinSpaceCush
        THEN (IF speed > 0 THEN 0 - EmergencyDecel ELSE 0)
        ELSE IF SpeedLimit > speed THEN MaxAccel
        ELSE IF SpeedLimit < speed THEN 0 - MaxDecel
        ELSE 0

(* _TrafficActor.compute_next_state *)
ComputeNextState(a, all_states) ==
    LET acceleration == ComputeAcceleration(a, all_states)
    IN  [a EXCEPT !.next_linear_acceleration = DT * acceleration,
                  !.next_speed = a.state.speed + acceleration * DT,
                  !.next_pos = Advance(a.state.pos, a.state.speed * DT)]

----------------------------------------------------------------------------
(* The commit phase: _TrafficActor.step and _reroute *)

(* _TrafficActor._reroute; raises KeyError when the actor's flow has no    *)
(* depart position (fault).                                                *)
Reroute(a, draw) ==
    IF a.route[1] \in OutgoingRoads(a.lane[1])
    THEN [actor |-> [a EXCEPT !.route_ind = 0 - 1, !.looping = TRUE], fault |-> FALSE]
    ELSE IF ~HasFlowPos(a.flow, "depart")
    THEN [actor |-> a, fault |-> TRUE]
    ELSE LET depart == ResolveFlowPos(a.flow, a.route, "depart", draw)
         IN  [actor |-> [a EXCEPT !.lane = PosLane(depart), !.offset = PosS(depart),
                                  !.state.pos = depart,
                                  !.state.speed = ResolveFlowSpeed(a.flow),
                                  !.state.linear_acceleration = 0,
                                  !.route_ind = 0],
              fault |-> FALSE]

(* What _TrafficActor.step does once the actor is on its destination *)
AtDestination(b, endless, draw) ==
    IF endless THEN Reroute(b, draw)
    ELSE [actor |-> [b EXCEPT !.done_with_route = TRUE], fault |-> FALSE]

(* _TrafficActor.step, had it counted the road changes down *)
ActorStepCountingDown(a, endless, draw) ==
    LET prev_road_id == a.lane[1]
        lane    == PosLane(a.next_pos)
        road_id == lane[1]
        b == [a EXCEPT !.state.pos = a.next_pos, !.state.speed = a.next_speed,
                       !.state.linear_acceleration = a.next_linear_acceleration,
                       !.lane = lane, !.offset = PosS(a.next_pos),
                       !.off_route = road_id \notin Range(a.route),
                       !.looping = @ /\ road_id # a.route[1],
                       !.route_ind = IF road_id # prev_road_id THEN @ - 1 ELSE @]
    IN  IF b.lane = b.dest_lane /\ b.offset >= b.dest_offset
        THEN AtDestination(b, endless, draw)
        ELSE [actor |-> b, fault |-> FALSE]

(* _TrafficActor.step *)
ActorStep(a, endless, draw) ==
    LET prev_road_id == a.lane[1]
        lane    == PosLane(a.next_pos)
        road_id == lane[1]
        b == [a EXCEPT !.state.pos = a.next_pos, !.state.speed = a.next_speed,
                       !.state.linear_acceleration = a.next_linear_acceleration,
                       !.lane = lane, !.offset = PosS(a.next_pos),
                       !.off_route = road_id \notin Range(a.route),
                       !.looping = @ /\ road_id # a.route[1],
                       !.route_ind = IF road_id # prev_road_id THEN @ + 1 ELSE @]
    IN  IF b.lane = b.dest_lane /\ b.offset >= b.dest_offset
        THEN AtDestination(b, endless, draw)
        ELSE [actor |-> b, fault |-> FALSE]

(* The first loop of step(): every actor decides on the same states *)
DecideAll(actors, others) ==
    [i \in DOMAIN actors |-> ComputeNextState(actors[i], AllStates(actors, others))]

(* The second loop of step(), from actor i on; it stops at a fault *)
RECURSIVE CommitLoop(_, _, _, _)
CommitLoop(actors, i, endless, draw) ==
    IF i > Len(actors) THEN [actors |-> actors, fault |-> FALSE]
    ELSE LET r == ActorStep(actors[i], endless, draw)
             stepped == [actors EXCEPT ![i] = r.actor]
         IN  IF r.fault THEN [actors |-> stepped, fault |-> TRUE]
             ELSE CommitLoop(stepped, i + 1, endless, draw)

(* The ids step() would collect if it went by off_route *)
DonesOffRoute(actors) == {actors[i].state.vehicle_id : i \in {j \in DOMAIN actors : actors[j].off_route}}

(* The ids step() collects in dones *)
Dones(actors) == {actors[i].state.vehicle_id : i \in {j \in DOMAIN actors : actors[j].done_with_route}}

(* _other_vehicles once the managed actors have become actors: an entry   *)
(* whose VehicleState object is also a managed actor's _state (shared)    *)
(* shows what that actor wrote to it.                                     *)
Mirror(others, actors) ==
    [k \in DOMAIN others |->
        IF others[k].shared /\ k \in ActorIds(actors)
        THEN [others[k] EXCEPT !.state = actors[ActorIndex(actors, k)].state]
        ELSE others[k]]

(* _other_vehicles once the managed actors are those of ids: an object is  *)
(* shared with a managed actor only                                        *)
Unshare(others, ids) ==
    [k \in DOMAIN others |-> [others[k] EXCEPT !.shared = @ /\ k \in ids]]

(* route[-1] *)
Last(route) == route[Len(route)]

(* The route-length tables.  A lane is <<road, index>>; a map gives the    *)
(* lanes of each road in order, the length of each lane and the links from *)
(* a lane to its outgoing lanes.                                           *)

(* lane.incoming_lanes *)
IncomingLanes(map, lane) == {e[1] : e \in {x \in map.out : x[2] = lane}}

(* lane.outgoing_lanes *)
OutgoingLanes(map, lane) == {e[2] : e \in {x \in map.out : x[1] = lane}}

(* The loop of _backprop_length over the incoming lanes ils, rind being    *)
(* the index it has decremented: an incoming lane that has an entry gets   *)
(* length added, and so do the lanes that lead to it.                      *)
RECURSIVE BackpropLength(_, _, _, _, _)
BackpropLength(table, map, ils, length, rind) ==
    IF ils = {} THEN table
    ELSE LET il == CHOOSE l \in ils : TRUE
             t1 == IF <<il, rind>> \in DOMAIN table
                   THEN BackpropLength([table EXCEPT ![<<il, rind>>] = @ + length],
                                       map, IncomingLanes(map, il), length, rind - 1)
                   ELSE table
         IN  BackpropLength(t1, map, ils \ {il}, length, rind)

(* The loop over road.lanes for the road at r_ind, from lane number n on *)
RECURSIVE CacheRoadLanes(_, _, _, _, _)
CacheRoadLanes(table, map, lanes, n, r_ind) ==
    IF n > Len(lanes) THEN table
    ELSE LET lane == lanes[n]
             t1   == BackpropLength(table, map, IncomingLanes(map, lane),
                                    map.length[lane], r_ind - 1)
         IN  CacheRoadLanes((<<lane, r_ind>> :> map.length[lane]) @@ t1,
                            map, lanes, n + 1, r_ind)

(* The loop over the roads of the route, from index r_ind on *)
RECURSIVE CacheRoads(_, _, _, _)
CacheRoads(table, map, route, r_ind) ==
    IF r_ind >= Len(route) THEN table
    ELSE CacheRoads(CacheRoadLanes(table, map, map.lanes[route[r_ind + 1]], 1, r_ind),
                    map, route, r_ind + 1)

(* The table with 1 added to an entry of the last road for each outgoing   *)
(* lane that lies on the first road of the route                           *)
LoopBonus(table, map, route) ==
    LET r_ind == Len(route) - 1
    IN  [k \in DOMAIN table |->
            IF k[2] = r_ind /\ k[1][1] = route[Len(route)]
            THEN table[k] + Cardinality({og \in OutgoingLanes(map, k[1]) :
                                            og[1] = route[1]})
            ELSE table[k]]

(* The table _cache_route_lengths fills in for a route it had none for *)
RouteTable(map, route) == LoopBonus(CacheRoads(<<>>, map, route, 0), map, route)

(* The road map of the provider as a lane graph *)
MapGraph ==
    [lanes  |-> [r \in Roads |-> [i \in 1..NumLanes |-> <<r, i - 1>>]],
     length |-> [lane \in Roads \X (0..(NumLanes - 1)) |-> LaneLength(lane[1])],
     out    |-> {<<<<r, i>>, <<NextRoad(r), i>>>> : r \in Roads, i \in 0..(NumLanes - 1)}]

(* _cache_route_lengths with the tables of the other routes forgotten *)
CacheRouteLengthsAnew(cache, route) == (route :> RouteTable(MapGraph, route))

(* LocalTrafficProvider._cache_route_lengths; route_id is hash(tuple(route)) *)
(* and stands for the route: a route that has a table keeps it.            *)
CacheRouteLengths(cache, route) ==
    IF route \in DOMAIN cache THEN cache
    ELSE (route :> RouteTable(MapGraph, route)) @@ cache

(* The asserts of _load_traffic_flows pass for a flow: its type and its    *)
(* route are defined in the file.                                          *)
FlowRefsOk(flow) == flow.vtype # "" /\ flow.route # <<>>

(* The flows _load_traffic_flows registers in self._flows: those of the    *)
(* file up to the first one whose assert fails.                            *)
RECURSIVE LoadedFlows(_)
LoadedFlows(spec) ==
    IF spec = <<>> \/ ~FlowRefsOk(Head(spec)) THEN <<>>
    ELSE <<Head(spec)>> \o LoadedFlows(Tail(spec))

(* LocalTrafficProvider._load_traffic_flows: the table of each flow's route *)
RECURSIVE LoadTrafficFlows(_, _)
LoadTrafficFlows(cache, spec) ==
    IF spec = <<>> THEN cache
    ELSE LoadTrafficFlows(CacheRouteLengths(cache, Head(spec).route), Tail(spec))

(* LocalTrafficProvider._provider_state: the states of the managed actors *)
ProviderState(actors) == [i \in DOMAIN actors |-> actors[i].state]

(* Reserved areas left if step() dropped those whose vehicle is not foreign *)
DropReservedGone(reserved, others) ==
    [k \in DOMAIN reserved \cap DOMAIN others |-> reserved[k]]

(* Reserved areas left once step() dropped those keyed by a foreign vehicle *)
DropReserved(reserved, others) ==
    [k \in DOMAIN reserved \ DOMAIN others |-> reserved[k]]

----------------------------------------------------------------------------
(* The host's inputs *)

(* Vehicles other providers own *)
ExtIds == {<<"ego", 1>>}

(* Where the host places them *)
ForeignPoses == {<<"E1", 0, 3>>}

(* The polygons the host reserves *)
ReservedShapes == {Bbox(p, FALSE) : p \in ForeignPoses}

ManagedIds == ActorIds(my_actors)

(* What a provider state may carry for a managed actor: its state as it is *)
Echo(a) == a.state

(* ... its state after another provider's physics slowed it to a halt *)
Halted(a) == [a.state EXCEPT !.speed = 0]

(* ... its state once another provider has taken the vehicle over *)
Hijacked(a) == [a.state EXCEPT !.source = OtherSource, !.role = "EgoAgent"]

(* The states a provider state may carry for a vehicle of ExtIds that is   *)
(* not managed: under another provider's source, or under this provider's. *)
ExtStates ==
    {VehicleState(id, p, 1, src, "EgoAgent") :
        id \in ExtIds \ ManagedIds, p \in ForeignPoses, src \in {OtherSource, SourceStr}}

(* The vehicle list in which the managed actors of set skip are missing,   *)
(* those of set taken come back hijacked and the others come back as they *)
(* are (back = "echo") or halted (back = "halted").                        *)
IncomingWith(back, taken, skip) ==
    LET F[k \in 0..Len(my_actors)] ==
            IF k = 0 THEN <<>>
            ELSE IF k \in skip THEN F[k - 1]
            ELSE F[k - 1] \o <<IF k \in taken THEN Hijacked(my_actors[k])
                                ELSE IF back = "halted" THEN Halted(my_actors[k])
                                ELSE Echo(my_actors[k])>>
    IN  F[Len(my_actors)]

(* The vehicle lists of the provider states sync may be given: every actor *)
(* as it is or halted, with a vehicle of ExtIds or without; one actor      *)
(* missing; one actor hijacked, with another one missing or without.       *)
IncomingLists ==
    {IncomingWith("echo", {}, {}), IncomingWith("halted", {}, {})}
    \cup {IncomingWith("echo", {}, {}) \o <<vs>> : vs \in ExtStates}
    \cup {IncomingWith("echo", {}, {i}) : i \in DOMAIN my_actors}
    \cup {IncomingWith("echo", {i}, skip) :
              i \in DOMAIN my_actors,
              skip \in {{}} \cup {{k} : k \in DOMAIN my_actors}}

NoCall == [op |-> "init", ok |-> TRUE, attempts |-> <<>>, incoming |-> <<>>, routed |-> {},
           returned |-> <<>>, vehicle_id |-> <<>>, dest |-> "None", roads |-> <<>>]

(* The record of a host call: op is the name of the entry point, "host"   *)
(* for add_vehicle and reserve_traffic_location_for_vehicle; ok is FALSE when   *)
(* the call raised; attempts is what setup or step did for each flow;      *)
(* vehicle_id is the id a call about one vehicle was given and dest what   *)
(* vehicle_dest_road returned; incoming is the vehicle list                *)
(* sync was given and routed the foreign vehicles that had a route then;   *)
(* returned is the vehicle list of the ProviderState setup or step         *)
(* returned.                                                               *)
Call(op, ok) == [NoCall EXCEPT !.op = op, !.ok = ok]

----------------------------------------------------------------------------
(* The provider *)

(* No call of _cache_route_lengths on a lane graph *)
NoLens == [cached |-> FALSE]

(* No actors followed through the cache of their bounding boxes *)
NoBoxes == [poses |-> <<>>]

(* No actor followed through its lane window and acceleration *)
NoDecide == [phase |-> "none"]

(* No call of time_to_cover yet *)
NoKin == [called |-> FALSE, dist |-> 0, speed |-> 0, acc |-> 0, result |-> Time(0, 1)]

(* No actor followed through _pick_lane *)
NoCutin == [started |-> FALSE]

(* No pair of runs *)
NoTwin == [turn |-> "none"]

(* LocalTrafficProvider.__init__ *)
InitProvider ==
    /\ endless_traffic \in BOOLEAN
    /\ road_map \in RoadMaps
    /\ phase = "new"
    /\ flows = <<>>
    /\ my_actors = <<>>
    /\ other_vehicles = <<>>
    /\ reserved_areas = <<>>
    /\ route_lane_lengths = <<>>
    /\ actors_created = 0
    /\ clock = 0
    /\ calls = 0
    /\ last_call = NoCall
    /\ emit_log = <<>>
    /\ pc = "idle"
    /\ idx = 0
    /\ seen = <<>>

(* The provider before any call, nothing else running *)
Init ==
    /\ InitProvider
    /\ kin = NoKin
    /\ lens = NoLens
    /\ decide = NoDecide
    /\ boxes = NoBoxes
    /\ cutin = NoCutin
    /\ twin = NoTwin

(* LocalTrafficProvider.setup: load the flows, seed the emissions at 0.0.  *)
(* A failed assert of the load leaves the flows registered before it, an   *)
(* Exception of the emission all of them; the provider is then "failed".   *)
SetupWith(spec, draw) ==
    /\ pc = "idle" /\ phase = "new"
    /\    LET loaded == LoadedFlows(spec)
              em     == AddActorsForTime(my_actors, actors_created, loaded,
                                         [f \in DOMAIN loaded |-> NoLog], 0,
                                         reserved_areas, draw)
          IN  IF Len(loaded) < Len(spec)
              THEN /\ phase' = "failed"
                   /\ flows' = loaded
                   /\ route_lane_lengths' = LoadTrafficFlows(route_lane_lengths, loaded)
                   /\ last_call' = Call("setup", FALSE)
                   /\ UNCHANGED <<my_actors, actors_created, emit_log>>
              ELSE /\ phase' = IF em.fault THEN "failed" ELSE "ready"
                   /\ flows' = em.flows
                   /\ route_lane_lengths' = LoadTrafficFlows(route_lane_lengths, spec)
                   /\ my_actors' = em.actors
                   /\ actors_created' = em.created
                   /\ emit_log' = em.log
                   /\ last_call' = [Call("setup", ~em.fault) EXCEPT
                                       !.attempts = em.attempts,
                                       !.returned = IF em.fault THEN <<>>
                                                    ELSE ProviderState(em.actors)]
    /\ UNCHANGED <<kin, cutin, lens, decide, boxes, endless_traffic, road_map, other_vehicles, reserved_areas, clock, calls, pc, idx, seen>>

Setup ==
    /\ \E spec \in TrafficSpecs, draw \in RandomOffsets : SetupWith(spec, draw)
    /\ UNCHANGED twin

(* LocalTrafficProvider.step, start to end; one draw stands for every     *)
(* random.random() of the call.  An Exception of the emission ends the     *)
(* call before anything else is done.                                      *)
StepWith(draw) ==
    /\ pc = "idle" /\ phase = "ready"
    /\    LET em      == AddActorsForTime(my_actors, actors_created, flows, emit_log,
                                          clock, reserved_areas, draw)
              decided == DecideAll(em.actors, other_vehicles)
              com     == CommitLoop(decided, 1, endless_traffic, draw)
          IN  /\ flows' = em.flows
              /\ actors_created' = em.created
              /\ emit_log' = em.log
              /\ IF em.fault
                 THEN /\ my_actors' = em.actors
                      /\ last_call' = [Call("step", FALSE) EXCEPT !.attempts = em.attempts]
                      /\ UNCHANGED <<reserved_areas, other_vehicles>>
                 ELSE /\ reserved_areas' = DropReserved(reserved_areas, other_vehicles)
                      /\ my_actors' = IF com.fault THEN com.actors
                                      ELSE DictDel(com.actors, Dones(com.actors))
                      /\ other_vehicles' = Unshare(Mirror(other_vehicles, com.actors),
                                                   ActorIds(my_actors'))
                      /\ last_call' = [Call("step", ~com.fault) EXCEPT
                                          !.attempts = em.attempts,
                                          !.returned = IF com.fault THEN <<>>
                                                       ELSE ProviderState(my_actors')]
    /\ clock' = clock + DT
    /\ calls' = calls + 1
    /\ UNCHANGED <<kin, cutin, lens, decide, boxes, endless_traffic, road_map, route_lane_lengths, phase, pc, idx, seen>>

StepOnce ==
    /\ \E draw \in RandomOffsets : StepWith(draw)
    /\ UNCHANGED twin

(* A step() among the calls of the host *)
Step == calls < MaxCalls /\ StepOnce

(* A step() of a host that makes no other call after setup *)
DriveStep == calls < MaxDrive /\ StepOnce

(* The actors sync would keep if it dropped the hijacked ones only *)
SyncKeptHijackOnly(actors, incoming) ==
    DictDel(actors, ActorIds(actors) \cap
                    {incoming[i].vehicle_id :
                        i \in {j \in DOMAIN incoming : incoming[j].source # SourceStr}})

(* The ids sync drops before it reads the states: missing and hijacked *)
SyncKept(actors, incoming) ==
    LET present  == {incoming[i].vehicle_id : i \in DOMAIN incoming}
        missing  == ActorIds(actors) \ present
        left     == DictDel(actors, missing)
        hijacked == ActorIds(left) \cap
                    {incoming[i].vehicle_id :
                        i \in {j \in DOMAIN incoming : incoming[j].source # SourceStr}}
    IN  DictDel(left, hijacked)

(* my_actor.state = vs *)
SetState(actors, vs) ==
    [actors EXCEPT ![ActorIndex(actors, vs.vehicle_id)].state = vs]

(* sync before its loop, had it not emptied _other_vehicles *)
SyncStartKeeping(actors, incoming) ==
    [actors |-> SyncKept(actors, incoming), others |-> other_vehicles, fault |-> FALSE]

(* sync before its loop: the kept actors, and _other_vehicles = dict() *)
SyncStart(actors, incoming) ==
    [actors |-> SyncKept(actors, incoming), others |-> <<>>, fault |-> FALSE]

(* The body of the loop, had it no branch for the vehicles of others *)
SyncOneManagedOnly(st, vs) ==
    IF vs.vehicle_id \in ActorIds(st.actors)
    THEN IF vs.source # SourceStr THEN [st EXCEPT !.fault = TRUE]
         ELSE [st EXCEPT !.actors = SetState(@, vs)]
    ELSE st

(* The body of the loop of sync for vs; a failed assertion is a fault *)
SyncOne(st, vs) ==
    IF vs.vehicle_id \in ActorIds(st.actors)
    THEN IF vs.source # SourceStr THEN [st EXCEPT !.fault = TRUE]
         ELSE [st EXCEPT !.actors = SetState(@, vs)]
    ELSE IF vs.source = SourceStr THEN [st EXCEPT !.fault = TRUE]
         ELSE [st EXCEPT !.others =
                            (vs.vehicle_id :> [state |-> vs, route |-> <<>>,
                                               shared |-> FALSE]) @@ @]

(* The loop of sync over provider_state.vehicles, from entry i on; it ends *)
(* at a fault.                                                             *)
RECURSIVE SyncLoop(_, _, _)
SyncLoop(st, incoming, i) ==
    IF i > Len(incoming) \/ st.fault THEN st
    ELSE SyncLoop(SyncOne(st, incoming[i]), incoming, i + 1)

(* LocalTrafficProvider.sync *)
SyncWith(incoming) ==
    /\ pc = "idle" /\ last_call.op \in {"setup", "step"}
    /\    LET r == SyncLoop(SyncStart(my_actors, incoming), incoming, 1)
          IN  /\ my_actors' = r.actors
              /\ other_vehicles' = r.others
              /\ last_call' = [Call("sync", ~r.fault) EXCEPT
                                  !.incoming = incoming,
                                  !.routed = {k \in DOMAIN other_vehicles :
                                                 other_vehicles[k].route # <<>>}]
    /\ UNCHANGED <<kin, cutin, lens, decide, boxes, endless_traffic, road_map, route_lane_lengths, phase, flows, reserved_areas, actors_created, clock, calls,
                   emit_log, pc, idx, seen>>

Sync ==
    /\ \E incoming \in IncomingLists : SyncWith(incoming)
    /\ UNCHANGED twin

(* provider_vehicle once add_vehicle has made it this provider's *)
Adopted(provider_vehicle) ==
    [provider_vehicle EXCEPT !.source = SourceStr, !.role = "Social"]

(* LocalTrafficProvider.add_vehicle: a vehicle the provider knows as       *)
(* foreign, or a new one, is handed over with a route, random_route() when *)
(* the host gives none.  provider_vehicle is written in place: when the    *)
(* host hands over the very object its last provider state carried         *)
(* (same_object), the entry of _other_vehicles is that object.             *)
AddVehicleWith(id, p, route, draw, same_object) ==
    /\ pc = "idle" /\ calls < MaxCalls /\ phase = "ready"
    /\    LET provider_vehicle ==
                  IF id \in DOMAIN other_vehicles THEN other_vehicles[id].state
                  ELSE VehicleState(id, p, 1, OtherSource, "EgoAgent")
          IN  /\ same_object => id \in DOMAIN other_vehicles
              /\ my_actors' = DictPut(my_actors,
                                      FromState(Adopted(provider_vehicle), route, draw))
              /\ other_vehicles' =
                     IF id \in DOMAIN other_vehicles
                     THEN [other_vehicles EXCEPT
                              ![id].shared = same_object,
                              ![id].state = IF same_object THEN Adopted(provider_vehicle)
                                            ELSE @]
                     ELSE other_vehicles
              /\ route_lane_lengths' = CacheRouteLengths(route_lane_lengths, route)
    /\ actors_created' = actors_created + 1
    /\ last_call' = Call("host", TRUE)
    /\ calls' = calls + 1
    /\ UNCHANGED <<kin, cutin, lens, decide, boxes, endless_traffic, road_map, phase, flows, reserved_areas, clock,
                   emit_log, pc, idx, seen>>

(* stop_managing without its assertion *)
StopManagingUnasserted(actors, id) == TRUE

AddVehicle ==
    /\ \E id \in DOMAIN other_vehicles \cup ExtIds, p \in ForeignPoses,
          route \in Routes, draw \in RandomOffsets, same_object \in BOOLEAN :
           AddVehicleWith(id, p, route, draw, same_object)
    /\ UNCHANGED twin

(* The assertion stop_managing starts with *)
StopManagingAsserts(actors, id) == id \in ActorIds(actors)

(* LocalTrafficProvider.stop_managing: the assertion fails for an id that  *)
(* is not managed.                                                         *)
StopManaging ==
    /\ pc = "idle" /\ calls < MaxCalls /\ phase = "ready"
    /\ \E id \in ManagedIds \cup ExtIds :
          /\ my_actors' = DictDel(my_actors, {id} \cap ManagedIds)
          /\ other_vehicles' = Unshare(other_vehicles, ManagedIds \ {id})
          /\ last_call' = [Call("stop_managing", StopManagingAsserts(my_actors, id))
                              EXCEPT !.vehicle_id = id]
    /\ calls' = calls + 1
    /\ UNCHANGED <<kin, cutin, lens, decide, boxes, twin, endless_traffic, road_map, route_lane_lengths, phase, flows, reserved_areas,
                   actors_created, clock, emit_log, pc, idx, seen>>

(* update_route with the destination left where it was *)
UpdateRouteKeepingDest(a, route, draw) ==
    [a EXCEPT !.route = route, !.route_ind = 0, !.looping = FALSE]

(* _TrafficActor.update_route *)
UpdateRoute(a, route, draw) ==
    LET dest == ResolveFlowPos(a.flow, route, "arrival", draw)
    IN  [a EXCEPT !.route = route, !.dest_lane = PosLane(dest),
                  !.dest_offset = PosS(dest), !.route_ind = 0, !.looping = FALSE]

(* LocalTrafficProvider.update_route_for_vehicle *)
UpdateRouteForVehicle ==
    /\ pc = "idle" /\ calls < MaxCalls /\ phase = "ready"
    /\ \E id \in ManagedIds \cup DOMAIN other_vehicles \cup ExtIds,
          route \in NewRoutes, draw \in RandomOffsets :
          IF id \in ManagedIds
          THEN /\ my_actors' = [my_actors EXCEPT ![ActorIndex(my_actors, id)] =
                                    UpdateRoute(@, route, draw)]
               /\ other_vehicles' = other_vehicles
               /\ route_lane_lengths' = CacheRouteLengths(route_lane_lengths, route)
               /\ last_call' = [Call("update_route_for_vehicle", TRUE)
                                   EXCEPT !.vehicle_id = id, !.roads = route]
          ELSE IF id \in DOMAIN other_vehicles
          THEN /\ route = RouteLoop
               /\ other_vehicles' = [other_vehicles EXCEPT ![id].route = route]
               /\ UNCHANGED <<my_actors, route_lane_lengths>>
               /\ last_call' = [Call("update_route_for_vehicle", TRUE)
                                   EXCEPT !.vehicle_id = id, !.roads = route]
          ELSE /\ UNCHANGED <<my_actors, other_vehicles, route_lane_lengths>>
               /\ last_call' = [Call("update_route_for_vehicle", FALSE)
                                   EXCEPT !.vehicle_id = id, !.roads = route]
    /\ calls' = calls + 1
    /\ UNCHANGED <<kin, cutin, lens, decide, boxes, twin, endless_traffic, road_map, phase, flows, reserved_areas, actors_created, clock,
                   emit_log, pc, idx, seen>>

(* LocalTrafficProvider.vehicle_dest_road: the last road of the route of  *)
(* a managed actor or of a foreign vehicle that has one, None for a        *)
(* foreign vehicle without route, and a failed assertion for any other id. *)
VehicleDestRoad ==
    /\ pc = "idle" /\ calls < MaxCalls /\ phase = "ready"
    /\ \E id \in ManagedIds \cup DOMAIN other_vehicles \cup ExtIds :
          last_call' =
              IF id \in ManagedIds
              THEN [Call("vehicle_dest_road", TRUE) EXCEPT
                       !.vehicle_id = id,
                       !.dest = Last(my_actors[ActorIndex(my_actors, id)].route)]
              ELSE IF id \in DOMAIN other_vehicles
              THEN [Call("vehicle_dest_road", TRUE) EXCEPT
                       !.vehicle_id = id,
                       !.dest = IF other_vehicles[id].route # <<>>
                                THEN Last(other_vehicles[id].route) ELSE "None"]
              ELSE [Call("vehicle_dest_road", FALSE) EXCEPT !.vehicle_id = id]
    /\ calls' = calls + 1
    /\ UNCHANGED <<kin, cutin, lens, decide, boxes, twin, endless_traffic, road_map, route_lane_lengths, phase, flows, my_actors,
                   other_vehicles, reserved_areas, actors_created, clock, emit_log,
                   pc, idx, seen>>

(* LocalTrafficProvider.reserve_traffic_location_for_vehicle; the host     *)
(* reserves when it resets the scenario, before its calls that count for   *)
(* MaxCalls, for a vehicle that has no reserved area.                      *)
ReserveWith(id, reserved_location) ==
    /\ pc = "idle" /\ calls = 0
    /\ reserved_areas' = (id :> reserved_location) @@ reserved_areas
    /\ last_call' = Call("host", TRUE)
    /\ UNCHANGED <<kin, cutin, lens, decide, boxes, endless_traffic, road_map, route_lane_lengths, phase, flows, my_actors, other_vehicles,
                   actors_created, clock, calls, emit_log, pc, idx, seen>>

ReserveTrafficLocationForVehicle ==
    /\ \E id \in ExtIds \ DOMAIN reserved_areas, reserved_location \in ReservedShapes :
           ReserveWith(id, reserved_location)
    /\ UNCHANGED twin

(* LocalTrafficProvider.teardown *)
Teardown ==
    /\ pc = "idle" /\ calls < MaxCalls /\ phase = "ready"
    /\ my_actors' = <<>>
    /\ other_vehicles' = <<>>
    /\ reserved_areas' = <<>>
    /\ last_call' = Call("teardown", TRUE)
    /\ calls' = calls + 1
    /\ UNCHANGED <<kin, cutin, lens, decide, boxes, twin, endless_traffic, road_map, route_lane_lengths, phase, flows, actors_created, clock, emit_log,
                   pc, idx, seen>>

(* LocalTrafficProvider.destroy: the body is pass *)
Destroy ==
    /\ pc = "idle" /\ calls < MaxCalls /\ phase = "ready"
    /\ last_call' = Call("destroy", TRUE)
    /\ calls' = calls + 1
    /\ UNCHANGED <<kin, cutin, lens, decide, boxes, twin, endless_traffic, road_map, route_lane_lengths, phase, flows, my_actors, other_vehicles,
                   reserved_areas, actors_created, clock, emit_log, pc, idx, seen>>

----------------------------------------------------------------------------
(* step() loop body by loop body *)

(* The loop bodies in the order of a single loop that moves each actor as  *)
(* soon as it has decided.                                                 *)
TickOnePass(n) ==
    [k \in 1..(2 * n) |-> IF k % 2 = 1 THEN <<"decide", (k + 1) \div 2>>
                                       ELSE <<"commit", k \div 2>>]

(* The loop bodies of step() over n managed actors, in the order they run: *)
(* compute_next_state for every actor, then _TrafficActor.step for every   *)
(* actor.                                                                  *)
TickSchedule(n) ==
    [k \in 1..(2 * n) |-> IF k <= n THEN <<"decide", k>> ELSE <<"commit", k - n>>]

(* step() up to its first loop *)
TickBegin ==
    /\ pc = "idle" /\ phase = "ready" /\ calls < MaxCalls
    /\ \E draw \in RandomOffsets :
          LET em == AddActorsForTime(my_actors, actors_created, flows, emit_log,
                                     clock, reserved_areas, draw)
          IN  /\ flows' = em.flows
              /\ actors_created' = em.created
              /\ emit_log' = em.log
              /\ my_actors' = em.actors
              /\ last_call' = [Call("step", TRUE) EXCEPT !.attempts = em.attempts]
    /\ reserved_areas' = DropReserved(reserved_areas, other_vehicles)
    /\ pc' = "tick" /\ idx' = 1 /\ seen' = <<>>
    /\ UNCHANGED <<kin, cutin, lens, decide, boxes, twin, endless_traffic, road_map, route_lane_lengths, phase, other_vehicles, clock, calls>>

(* One compute_next_state of the first loop *)
TickDecide ==
    /\ pc = "tick" /\ idx \in DOMAIN TickSchedule(Len(my_actors))
    /\ LET at == TickSchedule(Len(my_actors))[idx]
           all_states == AllStates(my_actors, other_vehicles)
       IN  /\ at[1] = "decide"
           /\ my_actors' = [my_actors EXCEPT ![at[2]] = ComputeNextState(@, all_states)]
           /\ seen' = Append(seen, [op |-> "decide", actor |-> at[2], read |-> all_states])
    /\ idx' = idx + 1
    /\ UNCHANGED <<kin, cutin, lens, decide, boxes, twin, endless_traffic, road_map, route_lane_lengths, phase, flows, other_vehicles, reserved_areas,
                   actors_created, clock, calls, last_call, emit_log, pc>>

(* One _TrafficActor.step of the second loop; an exception ends step() *)
TickCommit ==
    /\ pc = "tick" /\ idx \in DOMAIN TickSchedule(Len(my_actors))
    /\ \E draw \in RandomOffsets :
          LET at == TickSchedule(Len(my_actors))[idx]
              r  == ActorStep(my_actors[at[2]], endless_traffic, draw)
          IN  /\ at[1] = "commit"
              /\ my_actors' = [my_actors EXCEPT ![at[2]] = r.actor]
              /\ other_vehicles' = Mirror(other_vehicles, my_actors')
              /\ seen' = Append(seen, [op |-> "commit", actor |-> at[2], read |-> {}])
              /\ IF r.fault
                 THEN /\ pc' = "idle" /\ idx' = 0
                      /\ last_call' = [last_call EXCEPT !.ok = FALSE]
                      /\ clock' = clock + DT /\ calls' = calls + 1
                 ELSE /\ pc' = pc /\ idx' = idx + 1
                      /\ UNCHANGED <<last_call, clock, calls>>
    /\ UNCHANGED <<kin, cutin, lens, decide, boxes, twin, endless_traffic, road_map, route_lane_lengths, phase, flows, reserved_areas, actors_created, emit_log>>

(* step() after its loops: the actors that are done with their route go *)
TickEnd ==
    /\ pc = "tick" /\ idx \notin DOMAIN TickSchedule(Len(my_actors))
    /\ my_actors' = DictDel(my_actors, Dones(my_actors))
    /\ other_vehicles' = Unshare(other_vehicles, ActorIds(my_actors'))
    /\ last_call' = [last_call EXCEPT !.returned = ProviderState(my_actors')]
    /\ pc' = "idle" /\ idx' = 0
    /\ clock' = clock + DT /\ calls' = calls + 1
    /\ UNCHANGED <<kin, cutin, lens, decide, boxes, twin, endless_traffic, road_map, route_lane_lengths, phase, flows, reserved_areas, actors_created,
                   emit_log, seen>>

----------------------------------------------------------------------------
Next ==
    \/ Setup
    \/ Step
    \/ Sync
    \/ AddVehicle
    \/ StopManaging
    \/ UpdateRouteForVehicle
    \/ VehicleDestRoad
    \/ ReserveTrafficLocationForVehicle
    \/ Teardown
    \/ Destroy

(* The scenario on the map without junction *)
InitRing == Init /\ road_map = "ring"

Spec == InitRing /\ [][Next]_vars

(* The provider with step() taken one loop body at a time *)
NextTick ==
    \/ Setup
    \/ Sync
    \/ AddVehicle
    \/ TickBegin
    \/ TickDecide
    \/ TickCommit
    \/ TickEnd

SpecTick == InitRing /\ [][NextTick]_vars

----------------------------------------------------------------------------
(* utils.kinematics.time_to_cover on its own *)

(* The distances, speeds and accelerations time_to_cover is called with,   *)
(* and calls with an acceleration of the size of its threshold             *)
CoverDists == (0 - 2)..8
CoverSpeeds == (0 - 3)..4
CoverAccs == {0 - 4, 0 - 2, 0, 2, 4}
BigCovers ==
    {<<1, 5000, BigAcc>>, <<1, 0 - 5000, BigAcc>>, <<1, 45000, 0 - BigAcc>>,
     <<1, 0 - 45000, 0 - BigAcc>>, <<1, 0, 0 - BigAcc>>, <<0, 3, BigAcc>>}
CoverInputs == (CoverDists \X CoverSpeeds \X CoverAccs) \cup BigCovers

InitCover ==
    /\ InitProvider /\ road_map = "ring" /\ ~endless_traffic
    /\ kin = NoKin
    /\ lens = NoLens
    /\ decide = NoDecide
    /\ boxes = NoBoxes
    /\ cutin = NoCutin
    /\ twin = NoTwin

(* A call time_to_cover(dist, speed, acc) *)
TimeToCover ==
    /\ \E in \in CoverInputs :
          kin' = [called |-> TRUE, dist |-> in[1], speed |-> in[2], acc |-> in[3],
                  result |-> time_to_cover(in[1], in[2], in[3])]
    /\ UNCHANGED <<provider_vars, cutin, lens, decide, boxes, twin>>

SpecCover == InitCover /\ [][TimeToCover]_vars

----------------------------------------------------------------------------
(* LocalTrafficProvider._cache_route_lengths on lane graphs of their own.  *)

(* The lane graphs: three roads of two lanes, every lane of a road linked  *)
(* to one or both lanes of the next road, the last road linked or not to   *)
(* the first.                                                              *)
GraphRoads == <<"R1", "R2", "R3">>

GraphLanes(road) == <<<<road, 0>>, <<road, 1>>>>

GraphLength ==
    [lane \in UNION {Range(GraphLanes(GraphRoads[i])) : i \in DOMAIN GraphRoads} |->
        (lane[2] + 1) * (IF lane[1] = "R1" THEN 1 ELSE IF lane[1] = "R2" THEN 10 ELSE 100)]

GraphLinks(from, to) ==
    {e \in SUBSET (Range(GraphLanes(from)) \X Range(GraphLanes(to))) :
        \A l \in Range(GraphLanes(from)) : \E x \in e : x[1] = l}

GraphLoops ==
    {{}, {<<<<"R3", 0>>, <<"R1", 0>>>>},
     {<<<<"R3", 0>>, <<"R1", 0>>>>, <<<<"R3", 0>>, <<"R1", 1>>>>}}

LaneGraphs ==
    {[lanes  |-> [r \in Range(GraphRoads) |-> GraphLanes(r)],
      length |-> GraphLength,
      out    |-> l12 \cup l23 \cup loop] :
        l12 \in GraphLinks("R1", "R2"), l23 \in GraphLinks("R2", "R3"), loop \in GraphLoops}

GraphRoutes == {<<"R1", "R2">>, <<"R1", "R2", "R3">>}

InitRoutes ==
    /\ InitProvider /\ road_map = "ring" /\ ~endless_traffic
    /\ kin = NoKin
    /\ cutin = NoCutin
    /\ twin = NoTwin
    /\ decide = NoDecide
    /\ boxes = NoBoxes
    /\ \E map \in LaneGraphs, route \in GraphRoutes :
          lens = [cached |-> FALSE, map |-> map, route |-> route, table |-> <<>>]

(* A call _cache_route_lengths(route) *)
CacheRoute ==
    /\ ~lens.cached /\ "map" \in DOMAIN lens
    /\ lens' = [lens EXCEPT !.cached = TRUE, !.table = RouteTable(lens.map, lens.route)]
    /\ UNCHANGED <<provider_vars, kin, cutin, decide, boxes, twin>>

SpecRoutes == InitRoutes /\ [][CacheRoute]_vars

----------------------------------------------------------------------------
(* _TrafficActor._pick_lane on a route of two roads of three lanes each,   *)
(* tick after tick.  What _compute_lane_windows finds is an input of the   *)
(* tick: for each lane its time_left and ttre, the ego agent behind the    *)
(* actor and its back gap, and how far the destination is.  Times are in   *)
(* units of the time it takes to cross one lane, gaps in half metres.      *)

(* The cap on self._in_front_after_cutin_secs an actor is followed to *)
MaxPicks == 4

(* self._cutin_hold_secs *)
CutinHoldSecs == 3

CutinLanes == {0, 1, 2}

(* The roads of the actor's route; the destination lane is on the last *)
CutinRoads == {0, 1}

(* The index of self._dest_lane on the last road of the route *)
DestIdx == 2

(* self._cutting_into = None *)
None == 0 - 1

(* self._target_cutin_gap = 2.5 * self._min_space_cush, in half metres *)
TargetCutinGap == 5 * MinSpaceCush

(* _LaneWindow.crossing_time_at_speed: the time to cross one lane *)
CrossingTime == 1

(* random.random() is in [0, 1); draws and probabilities are in tenths *)
Draws == {0, 9}

(* (lcAssertive, lcCutinProb) of the vehicle types: the defaults, and two  *)
(* assertive types that cut in half of the time and always                 *)
CutinTypes == {<<1, 0>>, <<1, 5>>, <<2, 10>>}

(* _LaneWindow(time_left, ttre) of a lane: a short one, two wide ones, and *)
(* a wide one with a vehicle closing in from behind                        *)
Windows ==
    {[time_left |-> 1, ttre |-> Infinity],
     [time_left |-> 3, ttre |-> Infinity],
     [time_left |-> 4, ttre |-> Infinity],
     [time_left |-> 3, ttre |-> 1]}

(* The back gaps of the ego agent, in half metres *)
AgentGaps == {0, 3, 6, 9}

(* What _compute_lane_windows and random.random() give a tick of actor c:  *)
(* the windows of the lanes of its road, the lane of the one ego agent     *)
(* behind it (None without one) with its back gap, the draw, and where the *)
(* destination is: "near" when lane_coord.s + gap >= dest_offset, "past"   *)
(* when also offset >= dest_offset.                                        *)
LaneWindows(c) ==
    [windows    : [CutinLanes -> Windows],
     agent      : {<<None, 0>>} \cup (CutinLanes \X AgentGaps),
     draw       : Draws,
     dest       : IF c.road + 1 \in CutinRoads THEN {"far"} ELSE {"far", "near", "past"}]

(* lw.agent_gap *)
AgentGap(in, lane_idx) == IF in.agent[1] = lane_idx THEN in.agent[2] ELSE None

(* cross_time of _crossing_time_into for an actor in the middle of its     *)
(* lane: half a lane to leave it, the lanes between, half the target lane  *)
CrossTime(my_idx, target_idx) == Abs(target_idx - my_idx) * CrossingTime

(* _TrafficActor._crossing_time_into(target_idx)[1] *)
CrossingTimeInto(my_idx, in, target_idx) ==
    IF my_idx = target_idx THEN TRUE
    ELSE LET min_idx == Min(target_idx, my_idx + 1)
             max_idx == Max(target_idx + 1, my_idx)
         IN  \A i \in min_idx .. (max_idx - 1) :
                ~(Min(in.windows[i].time_left, in.windows[i].ttre)
                    <= CrossTime(my_idx, target_idx))

(* lw.adj_time_left, as _compute_lane_windows leaves it *)
AdjTimeLeft(my_idx, in, lane_idx) ==
    in.windows[lane_idx].time_left - CrossTime(my_idx, lane_idx)

(* _should_cutin with a gap of exactly target_cutin_gap + 2 taken too *)
ShouldCutinInclusive(c, in, lane_idx) ==
    IF lane_idx = c.lane THEN FALSE
    ELSE IF /\ TargetCutinGap < AgentGap(in, lane_idx) * c.aggressiveness
            /\ AgentGap(in, lane_idx) <= TargetCutinGap + 2 * 2
            /\ CrossingTimeInto(c.lane, in, lane_idx)
         THEN in.draw < c.cutin_prob
         ELSE FALSE

(* _TrafficActor._should_cutin(lw) *)
ShouldCutin(c, in, lane_idx) ==
    IF lane_idx = c.lane THEN FALSE
    ELSE IF /\ TargetCutinGap < AgentGap(in, lane_idx) * c.aggressiveness
            /\ AgentGap(in, lane_idx) < TargetCutinGap + 2 * 2
            /\ CrossingTimeInto(c.lane, in, lane_idx)
         THEN in.draw < c.cutin_prob
         ELSE FALSE

(* lw.lane == self._dest_lane *)
IsDestLane(c, lane_idx) == c.road + 1 \notin CutinRoads /\ lane_idx = DestIdx

(* The elif of _pick_lane: window lane_idx beats best_lw, which is the     *)
(* window of lane c.target                                                 *)
BetterWindow(c, in, lane_idx) ==
    LET lw   == AdjTimeLeft(c.lane, in, lane_idx)
        best == AdjTimeLeft(c.lane, in, c.target)
    IN  \/ lw > best
        \/ /\ lw = best
           /\ \/ IsDestLane(c, lane_idx) /\ in.dest # "past"
              \/ /\ in.windows[lane_idx].ttre > in.windows[c.target].ttre
                 /\ lane_idx < c.target

(* The while loop of _pick_lane from lane lane_idx on; (c.target_road,     *)
(* c.target) is the lane of best_lw, (c.cutting_road, c.cutting_into) the  *)
(* lane of self._cutting_into, c.scanned the lanes that got as far as the  *)
(* _should_cutin test.  c.target_win and c.cutting_win are the _LaneWindow *)
(* objects themselves: best_lw and self._cutting_into.                     *)
(* in_front_secs is only read once line 845 has set it.                    *)
RECURSIVE PickLoop(_, _, _)
PickLoop(c, in, lane_idx) ==
    IF ~CrossingTimeInto(c.lane, in, lane_idx) THEN c
    ELSE IF IsDestLane(c, lane_idx) /\ in.dest # "far"
    THEN [c EXCEPT !.target = lane_idx, !.target_road = c.road,
                   !.target_win = in.windows[lane_idx]]
    ELSE LET held == c.cutting_into # None /\ CrossingTimeInto(c.lane, in, c.cutting_into)
             c1   == IF held
                     THEN [c EXCEPT !.target = c.cutting_into, !.target_road = c.cutting_road,
                                    !.target_win = c.cutting_win]
                     ELSE c
         IN  IF held /\ (c.cutting_into # c.lane \/ c.cutting_road # c.road) THEN c1
             ELSE LET c2 == IF held
                            THEN [c1 EXCEPT !.in_front_after_cutin_secs = @ + DT]
                            ELSE c1
                  IN  IF held /\ c2.in_front_secs < CutinHoldSecs THEN c2
                      ELSE LET c3  == [c2 EXCEPT !.cutting_into = None,
                                                 !.cutting_road = None,
                                                 !.cutting_win = None,
                                                 !.in_front_secs = 0,
                                                 !.scanned = @ \cup {lane_idx}]
                               c4  == IF /\ AgentGap(in, lane_idx) \notin {None, 0}
                                         /\ ShouldCutin(c3, in, lane_idx)
                                      THEN [c3 EXCEPT !.target = lane_idx,
                                                      !.target_road = c.road,
                                                      !.target_win = in.windows[lane_idx],
                                                      !.cutting_into = lane_idx,
                                                      !.cutting_road = c.road,
                                                      !.cutting_win = in.windows[lane_idx]]
                                      ELSE IF BetterWindow(c3, in, lane_idx)
                                      THEN [c3 EXCEPT !.target = lane_idx,
                                                      !.target_road = c.road,
                                                      !.target_win = in.windows[lane_idx]]
                                      ELSE c3
                               nxt == (lane_idx + 1) % Cardinality(CutinLanes)
                           IN  IF nxt = c.lane THEN c4 ELSE PickLoop(c4, in, nxt)

(* _TrafficActor._pick_lane *)
PickLane(c, in) ==
    PickLoop([c EXCEPT !.target = c.lane, !.target_road = c.road,
                       !.target_win = in.windows[c.lane], !.scanned = {}],
             in, c.lane)

(* _TrafficActor.__init__, on any lane of the first road *)
InitCutin ==
    /\ InitProvider /\ road_map = "ring" /\ ~endless_traffic
    /\ kin = NoKin
    /\ lens = NoLens
    /\ decide = NoDecide
    /\ boxes = NoBoxes
    /\ twin = NoTwin
    /\ \E l \in CutinLanes, type \in CutinTypes :
          cutin = [started |-> TRUE, road |-> 0, lane |-> l,
                   target |-> l, target_road |-> 0,
                   target_win |-> None,
                   cutting_into |-> None, cutting_road |-> None, cutting_win |-> None,
                   in_front_after_cutin_secs |-> 0, in_front_secs |-> None,
                   aggressiveness |-> type[1], cutin_prob |-> type[2],
                   scanned |-> {}]

(* Where _TrafficActor.step finds the actor after the tick: in the lane it *)
(* was in, in the lane it steers to, or on the next road of its route.     *)
StepOutcomes(c) ==
    {"stay"} \cup (IF c.target_road = c.road /\ c.target # c.lane THEN {"cross"} ELSE {})
             \cup (IF c.road + 1 \in CutinRoads THEN {"advance"} ELSE {})

(* A tick of the actor: _pick_lane, then the commit of the step.  The next *)
(* _pick_lane sets _target_lane_win anew before anything reads it.         *)
PickLaneTick ==
    /\ cutin.started /\ cutin.in_front_after_cutin_secs < MaxPicks
    /\ \E in \in LaneWindows(cutin) :
          LET c == PickLane(cutin, in)
          IN  \E outcome \in StepOutcomes(c) :
                 cutin' = [c EXCEPT !.lane = IF outcome = "cross" THEN c.target ELSE @,
                                    !.road = IF outcome = "advance" THEN @ + 1 ELSE @,
                                    !.target_win = None,
                                    !.scanned = {}]
    /\ UNCHANGED <<provider_vars, kin, lens, decide, boxes, twin>>

SpecCutin == InitCutin /\ [][PickLaneTick]_vars

----------------------------------------------------------------------------
(* One actor's lane window and acceleration on a straight lane:            *)
(* _compute_lane_window and _compute_acceleration.  Lengths are in half    *)
(* metres, speeds in half metres per second; times (seconds) and           *)
(* accelerations (m/s^2) are fractions [n, d].                             *)

(* A VehicleState with the lane of _nearest_lanes_cache ("same": the lane  *)
(* of the window, "other": a lane that no chain of outgoing lanes joins to *)
(* it inside the route table, "none": no lane within the radius) and the   *)
(* offset of _cached_lane_offset; dimensions.length is 4 m, the norm of    *)
(* linear_acceleration is acc.                                             *)
Vehicle(id, lane, offset, speed, role) ==
    [vehicle_id |-> id, lane |-> lane, offset |-> offset, half |-> 4, speed |-> speed,
     acc |-> 0, role |-> role]

(* self._all_vehicle_states is made of these: the actor's own state, a     *)
(* leader at s = 50 m, one inside the cushion ahead, one overlapping ahead, a       *)
(* follower inside the cushion, an agent's vehicle far behind and one      *)
(* inside the cushion behind, a vehicle without a lane and one on another  *)
(* lane.                                                                   *)
VehicleStates ==
    {Vehicle("me", "same", 40, 30, "Social"),
     Vehicle("lead", "same", 100, 20, "Social"),
     Vehicle("near", "same", 52, 30, "Social"),
     Vehicle("touch", "same", 45, 30, "Social"),
     Vehicle("tail", "same", 27, 30, "Social"),
     Vehicle("ego", "same", 0, 40, "EgoAgent"),
     Vehicle("ego2", "same", 28, 30, "EgoAgent"),
     Vehicle("ghost", "none", 45, 30, "Social"),
     Vehicle("side", "other", 45, 30, "Social")}

(* The orders in which up to three of them come in the list *)
AllVehicleStates ==
    {<<>>} \cup {<<a>> : a \in VehicleStates}
           \cup {<<x[1], x[2]>> : x \in {y \in VehicleStates \X VehicleStates : y[1] # y[2]}}
           \cup {<<x[1], x[2], x[3]>> :
                    x \in {y \in VehicleStates \X VehicleStates \X VehicleStates :
                              y[1] # y[2] /\ y[1] # y[3] /\ y[2] # y[3]}}

(* The actor at s = 20 m: self._state, self._min_space_cush (minGap 2.5),  *)
(* and _lane_speed of the lane, the ratio of the radii being 1             *)
Me(speed) ==
    [vehicle_id |-> "me", offset |-> 40, half |-> 4, speed |-> speed, acc |-> 0,
     min_space_cush |-> 5]

(* The loop body of _compute_lane_window for a vehicle on the lane *)
WindowAfter(w, me, ovs) ==
    LET my_front_offset == me.offset + me.half
        my_back_offset  == me.offset - me.half
        ov_front_offset == ovs.offset + ovs.half
        ov_back_offset  == ovs.offset - ovs.half
        speed_delta     == me.speed - ovs.speed
        acc_delta       == me.acc - ovs.acc
        ov_front_gap    == Max(ov_back_offset - my_front_offset, 0)
        ntc             == Max(ov_front_gap - me.min_space_cush, 0)
        ov_ttc          == TimeMax(time_to_cover(ntc, speed_delta, acc_delta), Time(0, 1))
        ov_back_gap     == Max(my_back_offset - ov_front_offset - me.min_space_cush, 0)
        ov_ttre         == time_to_cover(ov_back_gap, 0 - speed_delta, 0 - acc_delta)
    IN  IF me.offset <= ovs.offset
        THEN [w EXCEPT !.lane_gap = Min(@, ov_front_gap),
                       !.lane_ttc = IF TimeLess(Time(0, 1), @) THEN TimeMin(@, ov_ttc) ELSE @]
        ELSE IF TimeLess(Time(0, 1), w.lane_ttre)
        THEN [w EXCEPT !.lane_ttre = TimeMin(@, ov_ttre),
                       !.agent_gap = IF ovs.role = "EgoAgent"
                                        /\ (@ = None \/ (ov_back_gap > 0 /\ ov_back_gap < @))
                                     THEN ov_back_gap ELSE @]
        ELSE w

(* A loop that does not pass over the actor's own state *)
RECURSIVE LaneWindowLoopWithSelf(_, _, _, _)
LaneWindowLoopWithSelf(w, me, all_states, i) ==
    IF i > Len(all_states) THEN w
    ELSE LET ovs == all_states[i]
         IN  IF ovs.lane # "same"
             THEN LaneWindowLoopWithSelf(w, me, all_states, i + 1)
             ELSE LET w1 == WindowAfter(w, me, ovs)
                  IN  IF w1.lane_ttc.n = 0 /\ w1.lane_ttre.n = 0 THEN w1
                      ELSE LaneWindowLoopWithSelf(w1, me, all_states, i + 1)

(* The loop of _compute_lane_window from the i-th state on: the actor's    *)
(* own id and vehicles that are not on the lane are passed over, and the   *)
(* loop ends once lane_ttc and lane_ttre are both 0.                       *)
RECURSIVE LaneWindowLoop(_, _, _, _)
LaneWindowLoop(w, me, all_states, i) ==
    IF i > Len(all_states) THEN w
    ELSE LET ovs == all_states[i]
         IN  IF ovs.vehicle_id = me.vehicle_id \/ ovs.lane # "same"
             THEN LaneWindowLoop(w, me, all_states, i + 1)
             ELSE LET w1 == WindowAfter(w, me, ovs)
                  IN  IF w1.lane_ttc.n = 0 /\ w1.lane_ttre.n = 0 THEN w1
                      ELSE LaneWindowLoop(w1, me, all_states, i + 1)

(* _TrafficActor._compute_lane_window: the _LaneWindow of the lane, whose  *)
(* entry of the route table is route_len                                   *)
compute_lane_window(me, route_len, all_states) ==
    LET path_len       == route_len - me.offset
        lane_time_left == Div(path_len, me.speed)
        w == LaneWindowLoop([lane_ttc |-> TimeInf, lane_ttre |-> TimeInf,
                             lane_gap |-> Infinity, agent_gap |-> None],
                            me, all_states, 1)
    IN  [time_left |-> TimeMin(lane_time_left, w.lane_ttc), ttre |-> w.lane_ttre,
         gap |-> w.lane_gap, agent_gap |-> w.agent_gap]

(* time_cush of _compute_acceleration *)
TimeCush(target_lane_win, lane_win, speed) ==
    TimeMax(TimeMin(TimeMin(TimeMin(target_lane_win.time_left,
                                    Div(target_lane_win.gap, speed)),
                            lane_win.time_left),
                    Div(lane_win.gap, speed)),
            Time(0, 1))

(* space_cush of _compute_acceleration *)
SpaceCush(target_lane_win, lane_win) == Max(Min(target_lane_win.gap, lane_win.gap), 0)

(* The vehicle types: tau in seconds, emergencyDecel, accel and decel in   *)
(* tenths of m/s^2; the first has the defaults.                            *)
VTypes ==
    {[tau |-> 1, emergencyDecel |-> 45, accel |-> 26, decel |-> 45],
     [tau |-> 2, emergencyDecel |-> 90, accel |-> 26, decel |-> 45],
     [tau |-> 1, emergencyDecel |-> 20, accel |-> 10, decel |-> 30],
     [tau |-> 0, emergencyDecel |-> 45, accel |-> 26, decel |-> 45]}

(* An acceleration whose space gate comes before its time gate *)
SpaceGateFirst(target_lane_win, lane_win, me, vtype, target_speed) ==
    LET time_cush  == TimeCush(target_lane_win, lane_win, me.speed)
        space_cush == SpaceCush(target_lane_win, lane_win)
        whole      == vtype.tau * time_cush.d
        PID        == Max(0 - 100, Min(100, 3 * (target_speed - me.speed) - me.acc))
    IN  IF space_cush < me.min_space_cush
        THEN (IF me.speed > 0
              THEN Time((0 - vtype.emergencyDecel)
                            * Min(2 * (me.min_space_cush - space_cush), me.min_space_cush),
                        10 * me.min_space_cush)
              ELSE Time(0, 1))
        ELSE IF TimeLess(time_cush, Time(vtype.tau, 1))
        THEN (IF me.speed > 0
              THEN Time((0 - vtype.emergencyDecel) * Min(3 * (whole - time_cush.n), whole),
                        10 * whole)
              ELSE Time(0, 1))
        ELSE IF PID > 0 THEN Time(PID * vtype.accel, 1000)
        ELSE Time(PID * vtype.decel, 1000)

(* _TrafficActor._compute_acceleration(dt) with dt = 0.1: the two gates,   *)
(* then the PID, 0.0060 * (target_speed - my_speed) - 0.0010 * my_acc over *)
(* dt being (3 * (target_speed - my_speed) - my_acc) / 100 in these units  *)
compute_acceleration(target_lane_win, lane_win, me, vtype, target_speed) ==
    LET time_cush  == TimeCush(target_lane_win, lane_win, me.speed)
        space_cush == SpaceCush(target_lane_win, lane_win)
        whole      == vtype.tau * time_cush.d
        PID        == Max(0 - 100, Min(100, 3 * (target_speed - me.speed) - me.acc))
    IN  IF TimeLess(time_cush, Time(vtype.tau, 1))
        THEN (IF me.speed > 0
              THEN Time((0 - vtype.emergencyDecel) * Min(3 * (whole - time_cush.n), whole),
                        10 * whole)
              ELSE Time(0, 1))
        ELSE IF space_cush < me.min_space_cush
        THEN (IF me.speed > 0
              THEN Time((0 - vtype.emergencyDecel)
                            * Min(2 * (me.min_space_cush - space_cush), me.min_space_cush),
                        10 * me.min_space_cush)
              ELSE Time(0, 1))
        ELSE IF PID > 0 THEN Time(PID * vtype.accel, 1000)
        ELSE Time(PID * vtype.decel, 1000)

(* The scenes: the list of vehicle states, the actor's speed, the lane's   *)
(* entry of the route table, and what a division by a speed of 0 does: it  *)
(* yields +-inf when an operand is a numpy float and raises                *)
(* ZeroDivisionError when both are Python floats.                          *)
Scenes ==
    {sc \in [all_states : AllVehicleStates, speed : {0, 20, 30}, route_len : {100, 200},
             zero_div : {"inf", "raise"}] :
        sc.zero_div = "raise" => sc.speed = 0}

(* The window of the target lane when it is not the actor's own lane *)
TargetWindows ==
    {[time_left |-> Time(1, 5), ttre |-> TimeInf, gap |-> 0, agent_gap |-> None],
     [time_left |-> Time(4, 5), ttre |-> TimeInf, gap |-> 6, agent_gap |-> None]}

(* self._target_speed *)
TargetSpeeds == {0, 30, 100}

InitDecide ==
    /\ InitProvider /\ road_map = "ring" /\ ~endless_traffic
    /\ kin = NoKin
    /\ cutin = NoCutin
    /\ lens = NoLens
    /\ boxes = NoBoxes
    /\ twin = NoTwin
    /\ \E sc \in Scenes : decide = [phase |-> "scene", scene |-> sc]

(* _compute_lane_window(lane, ...) within compute_next_state *)
ComputeLaneWindow ==
    /\ decide.phase = "scene"
    /\ decide' =
          IF decide.scene.speed = 0 /\ decide.scene.zero_div = "raise"
          THEN [decide EXCEPT !.phase = "raised"]
          ELSE [phase |-> "windowed", scene |-> decide.scene,
                win |-> compute_lane_window(Me(decide.scene.speed), decide.scene.route_len,
                                           decide.scene.all_states)]
    /\ UNCHANGED <<provider_vars, kin, cutin, lens, boxes, twin>>

(* _compute_acceleration(dt) within compute_next_state, the target lane    *)
(* being the actor's own or another one                                    *)
DecideAcceleration ==
    /\ decide.phase = "windowed"
    /\ \E target \in TargetWindows \cup {decide.win}, vtype \in VTypes,
          target_speed \in TargetSpeeds :
          decide' = [phase |-> "decided", scene |-> decide.scene, win |-> decide.win,
                     target |-> target, vtype |-> vtype, target_speed |-> target_speed,
                     acceleration |-> compute_acceleration(target, decide.win,
                                         Me(decide.scene.speed), vtype, target_speed)]
    /\ UNCHANGED <<provider_vars, kin, cutin, lens, boxes, twin>>

NextDecide == ComputeLaneWindow \/ DecideAcceleration

SpecDecide == InitDecide /\ [][NextDecide]_vars

----------------------------------------------------------------------------
(* The bounding boxes of the managed actors: _TrafficActor.bbox is wrapped *)
(* in functools.lru_cache(maxsize=2), one cache for all the actors, keyed  *)
(* by (self, cushion_length).  Poses are places along one lane; flows      *)
(* depart at place 0 and the route ends after the last place.              *)

(* How many actors are made in all *)
MaxBoxActors == 3

BoxPlaces == 0 .. 3

(* The place flows depart at: _resolve_flow_pos(flow, "depart", ...) *)
DepartPlace == 0

(* A cache that is never cleared *)
CacheKept(cache) == cache

(* bbox.cache_clear() *)
CacheClear(cache) == <<>>

(* A call actor.bbox(cushion_length) with the cache b.cache: the box is    *)
(* that of the place it was computed from, which b.consulted keeps next to *)
(* the pose the actor has at the call.  A hit moves the entry to the    *)
(* most recently used end, a miss computes the box of the actor's pose and *)
(* drops the least recently used entry beyond two.                         *)
BboxCall(b, actor, cushion_length) ==
    LET key  == <<actor, cushion_length>>
        hits == {i \in DOMAIN b.cache : b.cache[i].key = key}
    IN  IF hits # {}
        THEN LET i == CHOOSE j \in hits : TRUE
                 e == b.cache[i]
             IN  [b EXCEPT !.cache = Append(SelectSeq(b.cache, LAMBDA x : x.key # key), e),
                           !.consulted = Append(@, [actor |-> actor, place |-> e.place,
                                                    pose |-> b.poses[actor],
                                                    hit |-> TRUE])]
        ELSE LET e    == [key |-> key, place |-> b.poses[actor]]
                 full == Append(b.cache, e)
             IN  [b EXCEPT !.cache = IF Len(full) > 2 THEN Tail(full) ELSE full,
                           !.consulted = Append(@, [actor |-> actor, place |-> e.place,
                                                    pose |-> b.poses[actor],
                                                    hit |-> FALSE])]

(* The box of an actor at a place meets the cushioned box of a new actor   *)
(* at the depart place                                                     *)
MeetsNewActor(place) == place <= DepartPlace + 1

(* The loop of _add_actor_in_flow over self._my_actors from actor id on:   *)
(* FALSE in b.ok once a box meets the new actor's                          *)
RECURSIVE BoxCheckLoop(_, _, _)
BoxCheckLoop(b, id, new_id) ==
    IF id >= new_id THEN b
    ELSE IF id \notin DOMAIN b.poses \ {new_id} THEN BoxCheckLoop(b, id + 1, new_id)
    ELSE LET b1 == BboxCall(b, id, FALSE)
         IN  IF MeetsNewActor(b1.consulted[Len(b1.consulted)].place)
             THEN [b1 EXCEPT !.ok = FALSE]
             ELSE BoxCheckLoop(b1, id + 1, new_id)

(* LocalTrafficProvider._add_actor_in_flow: the new actor's cushioned box, *)
(* then the box of every managed actor; the new actor is kept if none      *)
(* meets it.  A rejected actor leaves its entry in the cache under a key   *)
(* no later call has (0).                                                  *)
BoxAddActorInFlow(b) ==
    LET new_id == b.made + 1
        b0 == [b EXCEPT !.poses = (new_id :> DepartPlace) @@ @, !.ok = TRUE]
        b1 == BboxCall(b0, new_id, TRUE)
        b2 == BoxCheckLoop([b1 EXCEPT !.consulted = b.consulted], 1, new_id)
    IN  IF b2.ok THEN [b2 EXCEPT !.made = new_id]
        ELSE [b2 EXCEPT !.poses = b.poses,
                        !.cache = [i \in DOMAIN b2.cache |->
                                      IF b2.cache[i].key[1] = new_id
                                      THEN [b2.cache[i] EXCEPT !.key = <<0, TRUE>>]
                                      ELSE b2.cache[i]]]

(* _add_actors_for_time with n flows that are due *)
RECURSIVE BoxAddActors(_, _)
BoxAddActors(b, n) ==
    IF n = 0 \/ b.made >= MaxBoxActors THEN b
    ELSE BoxAddActors(BoxAddActorInFlow(b), n - 1)

(* The second loop of LocalTrafficProvider.step from actor id on:          *)
(* _TrafficActor.step sets the pose and clears the cache (996-1000), then  *)
(* at the end of the route _reroute sets the pose again (1047) with        *)
(* endless traffic, and the provider erases the actor without it.          *)
RECURSIVE BoxStepLoop(_, _)
BoxStepLoop(b, id) ==
    IF id > b.made THEN b
    ELSE IF id \notin DOMAIN b.poses THEN BoxStepLoop(b, id + 1)
    ELSE LET at_end == b.poses[id] + 1 \notin BoxPlaces
             b1 == [b EXCEPT !.cache = CacheClear(@)]
             b2 == IF ~at_end THEN [b1 EXCEPT !.poses[id] = @ + 1]
                   ELSE IF b.endless THEN [b1 EXCEPT !.poses[id] = DepartPlace]
                   ELSE [b1 EXCEPT !.poses = [a \in DOMAIN @ \ {id} |-> @[a]]]
         IN  BoxStepLoop(b2, id + 1)

(* The state setter for the actors of a sync from actor id on:             *)
(* my_actor.state = vs sets the pose and clears the cache (515-516)        *)
RECURSIVE BoxSyncLoop(_, _, _)
BoxSyncLoop(b, id, places) ==
    IF id > b.made THEN b
    ELSE IF id \notin DOMAIN places THEN BoxSyncLoop(b, id + 1, places)
    ELSE BoxSyncLoop([b EXCEPT !.poses[id] = places[id], !.cache = CacheClear(@)],
                     id + 1, places)

InitBoxes ==
    /\ InitProvider /\ road_map = "ring"
    /\ kin = NoKin
    /\ cutin = NoCutin
    /\ lens = NoLens
    /\ decide = NoDecide
    /\ twin = NoTwin
    /\ boxes = [poses |-> <<>>, cache |-> <<>>, consulted |-> <<>>, made |-> 0, ok |-> TRUE,
                endless |-> endless_traffic, phase |-> "new"]

(* setup(): the emission attempts of sim time 0 *)
BoxSetup ==
    /\ boxes.phase = "new"
    /\ \E n \in 0 .. 2 :
          boxes' = [BoxAddActors([boxes EXCEPT !.consulted = <<>>], n) EXCEPT !.phase = "ready"]
    /\ UNCHANGED <<provider_vars, kin, cutin, lens, decide, twin>>

(* step(): the emission attempts, then the commit of every actor *)
BoxStep ==
    /\ boxes.phase = "ready"
    /\ \E n \in 0 .. 2 :
          boxes' = BoxStepLoop(BoxAddActors([boxes EXCEPT !.consulted = <<>>], n), 1)
    /\ UNCHANGED <<provider_vars, kin, cutin, lens, decide, twin>>

(* sync(): the actors the provider state leaves out are erased, the others *)
(* are given the state it has for them                                     *)
BoxSync ==
    /\ boxes.phase = "ready"
    /\ \E kept \in SUBSET DOMAIN boxes.poses :
          \E places \in [kept -> BoxPlaces] :
              boxes' = BoxSyncLoop([boxes EXCEPT !.poses = [a \in kept |-> @[a]],
                                                 !.consulted = <<>>], 1, places)
    /\ UNCHANGED <<provider_vars, kin, cutin, lens, decide, twin>>

NextBoxes == BoxSetup \/ BoxStep \/ BoxSync

SpecBoxes == InitBoxes /\ [][NextBoxes]_vars

----------------------------------------------------------------------------
(* Two runs of the provider, started with the same random seed and given   *)
(* the same calls.  The variables of the provider hold the run whose turn  *)
(* it is and twin.other the run that waits: one run takes a call, the      *)
(* runs change places, the other run takes the same call.  What the host   *)
(* passes and what the seeded generator yields are the same in both runs;  *)
(* the entropy of the process (hash seed, system randomness) is not.       *)

(* How many counted calls each of the two runs is given *)
MaxTwinCalls == 2

(* What differs from one process to the next *)
Entropies == RandomOffsets

(* A draw from the system's entropy, as random.SystemRandom would make *)
SystemRandom(seeded, entropy) == entropy

(* random.random(): the next value of the module's generator, which the    *)
(* host seeded; the entropy of the process has no part in it.              *)
RandomRandom(seeded, entropy) == seeded

(* The fields of the provider *)
Snapshot ==
    [endless_traffic |-> endless_traffic, road_map |-> road_map, phase |-> phase,
     flows |-> flows, my_actors |-> my_actors, other_vehicles |-> other_vehicles,
     reserved_areas |-> reserved_areas, route_lane_lengths |-> route_lane_lengths,
     actors_created |-> actors_created, clock |-> clock, calls |-> calls,
     last_call |-> last_call, emit_log |-> emit_log, pc |-> pc, idx |-> idx,
     seen |-> seen]

Restore(run) ==
    /\ endless_traffic' = run.endless_traffic
    /\ road_map' = run.road_map
    /\ phase' = run.phase
    /\ flows' = run.flows
    /\ my_actors' = run.my_actors
    /\ other_vehicles' = run.other_vehicles
    /\ reserved_areas' = run.reserved_areas
    /\ route_lane_lengths' = run.route_lane_lengths
    /\ actors_created' = run.actors_created
    /\ clock' = run.clock
    /\ calls' = run.calls
    /\ last_call' = run.last_call
    /\ emit_log' = run.emit_log
    /\ pc' = run.pc
    /\ idx' = run.idx
    /\ seen' = run.seen

(* A call of the host with its arguments and the seeded draw of the call *)
NoArgs ==
    [op |-> "none", draw |-> 0, id |-> <<>>, incoming |-> <<>>, p |-> <<>>,
     route |-> <<>>, same_object |-> FALSE, shape |-> <<>>, spec |-> <<>>]

InitTwin ==
    /\ InitProvider /\ road_map = "ring"
    /\ kin = NoKin
    /\ lens = NoLens
    /\ decide = NoDecide
    /\ boxes = NoBoxes
    /\ cutin = NoCutin
    /\ twin = [turn |-> "lead", other |-> Snapshot, call |-> NoArgs, followed |-> FALSE]

(* The call is handed to the other run *)
Handover(call) == twin' = [twin EXCEPT !.turn = "handover", !.call = call]

(* The run that has the turn takes a call of the host *)
TwinLead ==
    /\ twin.turn = "lead"
    /\ \E entropy \in Entropies :
          \/ \E spec \in TrafficSpecs, draw \in RandomOffsets :
                /\ SetupWith(spec, RandomRandom(draw, entropy))
                /\ Handover([NoArgs EXCEPT !.op = "setup", !.spec = spec, !.draw = draw])
          \/ \E draw \in RandomOffsets :
                /\ calls < MaxTwinCalls
                /\ StepWith(RandomRandom(draw, entropy))
                /\ Handover([NoArgs EXCEPT !.op = "step", !.draw = draw])
          \/ \E incoming \in IncomingLists :
                /\ SyncWith(incoming)
                /\ Handover([NoArgs EXCEPT !.op = "sync", !.incoming = incoming])
          \/ \E id \in DOMAIN other_vehicles \cup ExtIds, p \in ForeignPoses,
                route \in Routes, draw \in RandomOffsets, same_object \in BOOLEAN :
                /\ calls < MaxTwinCalls
                /\ AddVehicleWith(id, p, route, RandomRandom(draw, entropy), same_object)
                /\ Handover([NoArgs EXCEPT !.op = "add_vehicle", !.id = id, !.p = p,
                                           !.route = route, !.draw = draw,
                                           !.same_object = same_object])
          \/ \E id \in ExtIds \ DOMAIN reserved_areas,
                reserved_location \in ReservedShapes :
                /\ ReserveWith(id, reserved_location)
                /\ Handover([NoArgs EXCEPT !.op = "reserve", !.id = id,
                                           !.shape = reserved_location])

(* The two runs change places *)
TwinSwap ==
    /\ twin.turn = "handover"
    /\ Restore(twin.other)
    /\ twin' = [twin EXCEPT !.turn = "follow", !.other = Snapshot]
    /\ UNCHANGED <<kin, cutin, lens, decide, boxes>>

(* The other run takes the same call *)
TwinFollow ==
    /\ twin.turn = "follow"
    /\ \E entropy \in Entropies :
          LET call == twin.call
          IN  \/ call.op = "setup"
                 /\ SetupWith(call.spec, RandomRandom(call.draw, entropy))
              \/ call.op = "step"
                 /\ StepWith(RandomRandom(call.draw, entropy))
              \/ call.op = "sync"
                 /\ SyncWith(call.incoming)
              \/ call.op = "add_vehicle"
                 /\ AddVehicleWith(call.id, call.p, call.route,
                                   RandomRandom(call.draw, entropy), call.same_object)
              \/ call.op = "reserve"
                 /\ ReserveWith(call.id, call.shape)
    /\ twin' = [twin EXCEPT !.turn = "lead", !.followed = TRUE]

NextTwin ==
    \/ TwinLead
    \/ TwinSwap
    \/ TwinFollow

SpecTwin == InitTwin /\ [][NextTwin]_vars

(* The provider under a host that sets it up and steps it *)
NextDrive ==
    \/ Setup
    \/ DriveStep

SpecDrive == Init /\ [][NextDrive]_vars

----------------------------------------------------------------------------
(* setup() and step() with a traffic specification that may be wrong: a    *)
(* flow that refers to a type or a route the file does not define, that    *)
(* names a lane the road does not have or an offset off the lane, leaving  *)
(* at once or later.                                                       *)

(* begin of the flows of the files *)
Begins == {0, 2}

(* A flow of the file: a good one, or one with one thing wrong *)
FlowsFrom(fid, begin) ==
    LET good == Flow(fid, RouteLoop, begin, MaxCalls + 1, 2, PosAt(1), SpeedOf(1))
    IN  {good,
         [good EXCEPT !.vtype = ""],
         [good EXCEPT !.route = <<>>],
         [good EXCEPT !.departLane = NumLanes],
         [good EXCEPT !.arrivalLane = NumLanes],
         [good EXCEPT !.departPos = PosAt(LaneLen + 1)],
         [good EXCEPT !.arrivalPos = PosAt(LaneLen + 1)]}

(* The files: a flow that leaves at once, then one that may leave later *)
LoadSpecs ==
    {<<f1, f2>> : f1 \in FlowsFrom("f1", 0),
                  f2 \in UNION {FlowsFrom("f2", b) : b \in Begins}}

SetupLoaded ==
    /\ \E spec \in LoadSpecs, draw \in RandomOffsets : SetupWith(spec, draw)
    /\ UNCHANGED twin

NextLoad == SetupLoaded \/ Step

SpecLoad == InitRing /\ [][NextLoad]_vars

----------------------------------------------------------------------------
(* Properties *)

(* The decide entries of the history of the last step() *)
Decisions == {k \in DOMAIN seen : seen[k].op = "decide"}

(* C1: within one step call every actor's compute_next_state reads the     *)
(* same vehicle states, and no actor's _TrafficActor.step runs before      *)
(* another actor's compute_next_state of that call.                        *)
SnapshotOrdering ==
    /\ \A j \in Decisions, k \in Decisions : seen[j].read = seen[k].read
    /\ \A j \in DOMAIN seen, k \in Decisions : seen[j].op = "commit" => k < j

(* C1 witness: a step() with two actors in which the first one has moved   *)
(* to a pose and speed that no decision of the call has read.              *)
SnapshotOrderingWitness ==
    /\ pc = "tick" /\ Len(my_actors) >= 2
    /\ \E j \in DOMAIN seen : seen[j].op = "commit" /\ seen[j].actor = 1
    /\ \A k \in Decisions : my_actors[1].state \notin seen[k].read
    /\ Cardinality(Decisions) = Len(my_actors)

(* C2: every emission of a flow lies inside [begin, end) of the flow, and  *)
(* two emissions of one flow are at least emit_period apart, so that one   *)
(* call emits at most once per flow and a step at the sim time of setup's  *)
(* seeding emits nothing more.                                             *)
EmissionTiming ==
    \A f \in DOMAIN flows :
        LET times == emit_log[f].times
        IN  /\ \A k \in DOMAIN times :
                   flows[f].begin <= times[k] /\ times[k] < flows[f].end
            /\ \A j \in DOMAIN times, k \in DOMAIN times :
                   j < k => times[k] - times[j] >= flows[f].emit_period
            /\ flows[f].last_added = IF times = <<>> THEN NoTime ELSE times[Len(times)]

(* C2 witness: a flow that emitted at setup, was skipped by the steps      *)
(* before its period had passed, and emitted a second time.                *)
EmissionTimingWitness ==
    \E f \in DOMAIN flows :
        /\ Len(emit_log[f].times) = 2
        /\ emit_log[f].times[1] = 0
        /\ last_call.op = "step" /\ last_call.attempts[f].outcome = "emitted"

(* A step of the provider that is a call of setup or step *)
EmissionCall ==
    /\ last_call'.op \in {"setup", "step"}
    /\ phase' # phase \/ calls' # calls

(* What the flow was before the call: setup reads it from the scenario *)
FlowBefore(f) == IF phase = "new" THEN [flows'[f] EXCEPT !.last_added = NoTime] ELSE flows[f]
LogBefore(f) == IF phase = "new" THEN NoLog ELSE emit_log[f]

(* The actors the call created and kept *)
EmittedIds == {last_call'.attempts[f].id :
                  f \in {g \in DOMAIN flows' : last_call'.attempts[g].outcome = "emitted"}}

(* C3: a rejected emission attempt leaves the flow's last_added as it was  *)
(* and adds no actor: the call adds the actors of its successful attempts  *)
(* and no other; and a flow whose last attempt was rejected attempts again *)
(* at every later step whose sim time lies inside its window.              *)
RejectionLeavesFlow ==
    [][EmissionCall =>
          /\ ActorIds(my_actors') \ ActorIds(my_actors) \subseteq EmittedIds
          /\ phase = "new" => ActorIds(my_actors') = EmittedIds
          /\ \A f \in DOMAIN flows' :
                 /\ last_call'.attempts[f].outcome = "rejected" =>
                        /\ flows'[f].last_added = FlowBefore(f).last_added
                        /\ emit_log'[f].times = LogBefore(f).times
                        /\ last_call'.attempts[f].id \notin ActorIds(my_actors')
                 /\ ( /\ LogBefore(f).rejected # NoTime
                      /\ flows'[f].begin <= clock /\ clock < flows'[f].end )
                        => last_call'.attempts[f].outcome # "none"]_vars

(* C3 witness: the second flow, rejected at setup because the first flow's *)
(* actor stood in its way, was rejected again by the step that followed.   *)
RejectionLeavesFlowWitness ==
    /\ last_call.op = "step" /\ Len(flows) = 2
    /\ last_call.attempts[2].outcome = "rejected"
    /\ emit_log[2].times = <<>> /\ ~emit_log[2].reserved0
    /\ emit_log[1].times = <<0>>

(* Nothing meets the padded box of an actor leaving from pos for flow f:   *)
(* no reserved area, no managed actor, no foreign vehicle, no actor an     *)
(* earlier flow emitted in the same call.                                  *)
DepartBoxFree(f, pos) ==
    LET box == Bbox(pos, TRUE)
    IN  /\ \A k \in DOMAIN reserved_areas : ~Intersects(reserved_areas[k], box)
        /\ \A i \in DOMAIN my_actors : ~Intersects(Bbox(my_actors[i].state.pos, FALSE), box)
        /\ \A k \in DOMAIN other_vehicles :
               ~Intersects(Bbox(other_vehicles[k].state.pos, FALSE), box)
        /\ \A g \in 1..(f - 1) :
               last_call'.attempts[g].outcome = "emitted" =>
                   ~Intersects(Bbox(last_call'.attempts[g].pos, FALSE), box)

(* C4: a flow whose attempt at sim time 0 met a reserved area and that has *)
(* not emitted since attempts at every step inside its window, and at the  *)
(* first one that finds its depart box free it emits exactly one actor and *)
(* sets last_added to that sim time; within emit_period after that it      *)
(* emits no other.                                                         *)
BlockedFlowEmitsOnce ==
    [][(EmissionCall /\ phase = "ready") =>
          \A f \in DOMAIN flows :
              LET att == last_call'.attempts[f]
              IN  emit_log[f].reserved0 =>
                     /\ ( /\ emit_log[f].times = <<>>
                          /\ flows[f].begin <= clock /\ clock < flows[f].end )
                            => /\ att.outcome # "none"
                               /\ DepartBoxFree(f, att.pos) =>
                                      /\ att.outcome = "emitted"
                                      /\ flows'[f].last_added = clock
                                      /\ emit_log'[f].times = <<clock>>
                                      /\ actors_created' >= actors_created + 1
                     /\ ( /\ emit_log[f].times # <<>>
                          /\ clock - emit_log[f].times[Len(emit_log[f].times)]
                                 < flows[f].emit_period )
                            => /\ att.outcome = "none"
                               /\ emit_log'[f].times = emit_log[f].times]_vars

(* C4 witness: a flow blocked at sim time 0 by a reserved area has emitted *)
(* its first actor, and a later step inside its period has passed it over. *)
BlockedFlowEmitsOnceWitness ==
    \E f \in DOMAIN flows :
        /\ emit_log[f].reserved0 /\ Len(emit_log[f].times) = 1
        /\ last_call.op = "step" /\ last_call.attempts[f].outcome = "none"
        /\ clock - emit_log[f].times[1] <= flows[f].emit_period
        /\ clock <= flows[f].end

(* C5: the padded box of an actor a flow emits meets no reserved area, no  *)
(* actor managed when the call began and no actor an earlier flow emitted  *)
(* in the same call; after setup the actor stands where it was emitted.    *)
EmittedBoxClear ==
    [][EmissionCall =>
          \A f \in DOMAIN flows' :
              LET att == last_call'.attempts[f]
                  box == Bbox(att.pos, TRUE)
              IN  att.outcome = "emitted" =>
                     /\ \A k \in DOMAIN reserved_areas :
                            ~Intersects(reserved_areas[k], box)
                     /\ \A i \in DOMAIN my_actors :
                            ~Intersects(Bbox(my_actors[i].state.pos, FALSE), box)
                     /\ \A g \in 1..(f - 1) :
                            last_call'.attempts[g].outcome = "emitted" =>
                                ~Intersects(Bbox(last_call'.attempts[g].pos, FALSE), box)
                     /\ phase = "new" =>
                            \E i \in DOMAIN my_actors' :
                                /\ my_actors'[i].state.vehicle_id = att.id
                                /\ my_actors'[i].state.pos = att.pos]_vars

(* C5 witness: a call in which both flows emitted, the second one past the *)
(* actor of the first.                                                     *)
EmittedBoxClearWitness ==
    /\ last_call.op \in {"setup", "step"} /\ Len(flows) = 2
    /\ last_call.attempts[1].outcome = "emitted"
    /\ last_call.attempts[2].outcome = "emitted"

(* The vehicle ids of the last sync's provider state with the given source *)
IncomingIds(own) ==
    {last_call.incoming[i].vehicle_id :
        i \in {j \in DOMAIN last_call.incoming :
                  (last_call.incoming[j].source = SourceStr) = own}}

(* The last call was a sync that returned *)
Synced == last_call.op = "sync" /\ last_call.ok

(* C6: once sync has returned, the managed ids are exactly the ids of the  *)
(* incoming vehicles whose source is the provider's; no hijacked id, which *)
(* comes with another source, and no id missing from the provider state is *)
(* managed.                                                                *)
SyncManagedSet ==
    Synced => /\ ActorIds(my_actors) = IncomingIds(TRUE)
              /\ ActorIds(my_actors) \cap IncomingIds(FALSE) = {}

(* C6 witness: a sync that returned after it was given a managed actor     *)
(* under the provider's source and a vehicle of another provider, and not  *)
(* every actor the flows had emitted.                                      *)
SyncManagedSetWitness ==
    /\ Synced
    /\ IncomingIds(TRUE) # {}
    /\ IncomingIds(FALSE) \cap ExtIds # {}
    /\ \E f \in DOMAIN flows : Len(emit_log[f].times) > Cardinality(IncomingIds(TRUE))

(* C7: every managed actor's state carries the provider's source and every *)
(* foreign vehicle the provider holds carries another one.                 *)
SourceSeparation ==
    /\ \A i \in DOMAIN my_actors : my_actors[i].state.source = SourceStr
    /\ \A k \in DOMAIN other_vehicles : other_vehicles[k].state.source # SourceStr

(* A step of the provider that is a call of sync that returned *)
SyncCall == last_call'.op = "sync" /\ last_call.op # "sync" /\ last_call'.ok

(* The managed ids the provider state of the call brings under another     *)
(* source                                                                  *)
HijackedIds ==
    {id \in ActorIds(my_actors) :
        \E i \in DOMAIN last_call'.incoming :
            /\ last_call'.incoming[i].vehicle_id = id
            /\ last_call'.incoming[i].source # SourceStr}

(* The managed ids the provider state of the call brings under the         *)
(* provider's source                                                       *)
ConfirmedIds ==
    {id \in ActorIds(my_actors) :
        \E i \in DOMAIN last_call'.incoming :
            /\ last_call'.incoming[i].vehicle_id = id
            /\ last_call'.incoming[i].source = SourceStr}

(* The hijacked actors have become foreign vehicles with the state the     *)
(* provider state brought                                                  *)
HijackedBecomeForeign ==
    \A h \in HijackedIds :
        /\ h \notin ActorIds(my_actors')
        /\ h \in DOMAIN other_vehicles'
        /\ \E i \in DOMAIN last_call'.incoming :
               other_vehicles'[h].state = last_call'.incoming[i]

(* C8: a sync that is given a managed id under another source stops        *)
(* managing it and holds it as a foreign vehicle with the incoming state   *)
(* when it returns; the managed actors the provider state brings under the *)
(* provider's source stay managed, the ones it leaves out do not.          *)
HijackKeepsConfirmed ==
    [][(SyncCall /\ HijackedIds # {}) =>
          /\ HijackedBecomeForeign
          /\ ActorIds(my_actors') = ConfirmedIds]_vars

(* C8 as stated: every managed actor that is not hijacked stays managed.   *)
HijackKeepsOthers ==
    [][(SyncCall /\ HijackedIds # {}) =>
          /\ HijackedBecomeForeign
          /\ ActorIds(my_actors) \ HijackedIds \subseteq ActorIds(my_actors')]_vars

(* C8 witness: a sync has returned that took one actor away under another  *)
(* source and left another one managed.                                    *)
HijackKeepsConfirmedWitness ==
    /\ Synced /\ my_actors # <<>>
    /\ \E id \in IncomingIds(FALSE) :
           /\ id[1] = "car"
           /\ id \in DOMAIN other_vehicles
           /\ other_vehicles[id].state.source = OtherSource

(* C9: once sync has returned, the foreign vehicles are exactly the        *)
(* incoming vehicles that are not managed, each with the incoming state    *)
(* and no route, whatever route it had before; and every incoming vehicle  *)
(* with the provider's source is the state of the managed actor of its id. *)
SyncForeignSet ==
    Synced =>
        /\ DOMAIN other_vehicles =
               (IncomingIds(TRUE) \cup IncomingIds(FALSE)) \ ActorIds(my_actors)
        /\ \A i \in DOMAIN last_call.incoming :
               LET vs == last_call.incoming[i]
               IN  IF vs.vehicle_id \in ActorIds(my_actors)
                   THEN my_actors[ActorIndex(my_actors, vs.vehicle_id)].state = vs
                   ELSE /\ other_vehicles[vs.vehicle_id].state = vs
                        /\ other_vehicles[vs.vehicle_id].route = <<>>
        /\ \A i \in DOMAIN last_call.incoming :
               last_call.incoming[i].source = SourceStr =>
                   last_call.incoming[i].vehicle_id \in ActorIds(my_actors)

(* C9 witness: a sync has returned that was given a managed actor and a    *)
(* foreign vehicle that had a route from update_route_for_vehicle.         *)
SyncForeignSetWitness ==
    /\ Synced /\ my_actors # <<>>
    /\ last_call.routed \cap DOMAIN other_vehicles # {}

(* A step of the provider that is a call of step() *)
StepCall == last_call'.op = "step" /\ calls' = calls + 1

(* C10: with endless_traffic no actor is ever done with its route, step    *)
(* removes no actor, an actor on its destination loops or teleports, and   *)
(* step returns.                                                           *)
EndlessKeepsActors ==
    [][(StepCall /\ endless_traffic) =>
          /\ last_call'.ok
          /\ ActorIds(my_actors) \subseteq ActorIds(my_actors')
          /\ \A i \in DOMAIN my_actors' :
                 /\ ~my_actors'[i].done_with_route
                 /\ ( /\ my_actors'[i].lane = my_actors'[i].dest_lane
                      /\ my_actors'[i].offset >= my_actors'[i].dest_offset
                      /\ my_actors'[i].state.vehicle_id \in ActorIds(my_actors) )
                        => my_actors'[i].route_ind \in {0 - 1, 0}]_vars

(* An actor that _TrafficActor.step has left on its destination *)
OnDestination(a) == a.lane = a.dest_lane /\ a.offset >= a.dest_offset

(* The commit entries of the history of the last step() *)
Commits == {k \in DOMAIN seen : seen[k].op = "commit"}

(* C11: without endless_traffic, a step erases the actors its commits left *)
(* on their destination and no other: the ProviderState it returns is the  *)
(* states of the actors that are managed after it, which are the others,   *)
(* each under the provider's source.                                       *)
FinishedErased ==
    [][(pc = "tick" /\ pc' = "idle" /\ last_call'.ok /\ ~endless_traffic) =>
          LET finished == {my_actors[i].state.vehicle_id :
                              i \in {j \in DOMAIN my_actors : OnDestination(my_actors[j])}}
              returned == last_call'.returned
          IN  /\ ActorIds(my_actors') = ActorIds(my_actors) \ finished
              /\ returned = [i \in DOMAIN my_actors' |-> my_actors'[i].state]
              /\ \A k \in DOMAIN returned :
                     /\ returned[k].vehicle_id \notin finished
                     /\ returned[k].source = SourceStr]_vars

(* C11 witness: a step without endless_traffic has returned after it       *)
(* committed more actors than it has left, one of them an actor that is    *)
(* held as a foreign vehicle too.                                          *)
FinishedErasedWitness ==
    /\ ~endless_traffic /\ pc = "idle" /\ last_call.op = "step" /\ last_call.ok
    /\ Cardinality(Commits) > Len(my_actors)
    /\ last_call.returned # <<>>
    /\ other_vehicles # <<>>

(* The actor that has id in the dict actors *)
ActorOf(actors, id) == actors[ActorIndex(actors, id)]

(* The ids managed before and after a step of the provider whose route_ind *)
(* is lower after it                                                       *)
RouteIndLowered ==
    {id \in ActorIds(my_actors) \cap ActorIds(my_actors') :
        ActorOf(my_actors', id).route_ind < ActorOf(my_actors, id).route_ind}

(* C12 as stated: the route_ind of a managed actor never decreases, except *)
(* that it is reset, and a reset assigns 0 and no other value.             *)
RouteIndResetsToZero ==
    [][\A id \in RouteIndLowered : ActorOf(my_actors', id).route_ind = 0]_vars

(* C12: the route_ind of a managed actor never decreases, except that it   *)
(* is reset to 0 (teleport, update_route, add_vehicle), or to -1 by a step *)
(* with endless_traffic that leaves the actor on its destination, on a     *)
(* road that leads to the first road of its route.                         *)
RouteIndResets ==
    [][\A id \in RouteIndLowered :
          LET a == ActorOf(my_actors', id)
          IN  \/ a.route_ind = 0
              \/ /\ a.route_ind = 0 - 1
                 /\ StepCall /\ endless_traffic
                 /\ OnDestination(a)
                 /\ a.route[1] \in OutgoingRoads(a.lane[1])]_vars

(* C12 witness: an actor that passed on to the second road of its route    *)
(* and was set to loop there.                                              *)
RouteIndResetsWitness ==
    \E i \in DOMAIN my_actors :
        /\ my_actors[i].route_ind = 0 - 1
        /\ my_actors[i].lane[1] = my_actors[i].route[Len(my_actors[i].route)]
        /\ Len(my_actors[i].route) = 2

(* C13: with endless_traffic, an actor that was set to loop has route_ind  *)
(* 0 after the commit that first finds it on the first road of its route.  *)
LoopLandsOnZero ==
    [][(StepCall /\ endless_traffic) =>
          \A id \in ActorIds(my_actors) \cap ActorIds(my_actors') :
              ( /\ ActorOf(my_actors, id).looping
                /\ ActorOf(my_actors', id).lane[1] = ActorOf(my_actors', id).route[1] )
                  => ActorOf(my_actors', id).route_ind = 0]_vars

(* C14: after teardown, and after destroy, the managed actors, the        *)
(* foreign vehicles, the reserved areas and the flows are all empty.       *)
ClearedAfterShutdown ==
    last_call.op \in {"teardown", "destroy"} =>
        /\ my_actors = <<>>
        /\ other_vehicles = <<>>
        /\ reserved_areas = <<>>
        /\ flows = <<>>

(* C15: update_route_for_vehicle and vehicle_dest_road given an id that   *)
(* is neither managed nor foreign, and stop_managing given an id that is   *)
(* not managed, raise and leave the managed actors, the foreign vehicles,  *)
(* the reserved areas and the route-length cache as they were.             *)
UnknownIdCall ==
    /\ calls' = calls + 1
    /\ \/ /\ last_call'.op \in {"update_route_for_vehicle", "vehicle_dest_road"}
          /\ last_call'.vehicle_id \notin ManagedIds \cup DOMAIN other_vehicles
       \/ /\ last_call'.op = "stop_managing"
          /\ last_call'.vehicle_id \notin ManagedIds

UnknownIdIsFatal ==
    [][UnknownIdCall =>
          /\ ~last_call'.ok
          /\ my_actors' = my_actors
          /\ other_vehicles' = other_vehicles
          /\ reserved_areas' = reserved_areas
          /\ route_lane_lengths' = route_lane_lengths]_vars

UnknownIdIsFatalWitness ==
    /\ last_call.op = "stop_managing"
    /\ ~last_call.ok
    /\ last_call.vehicle_id \in DOMAIN other_vehicles
    /\ my_actors # <<>>
    /\ RouteBack \notin DOMAIN route_lane_lengths

(* C17: the speed step() commits for a managed actor is never negative.   *)
CommittedSpeedNonNegative ==
    \A i \in DOMAIN my_actors : my_actors[i].state.speed >= 0

(* The smaller non-negative root of 0.5*acc*t^2 + speed*t - dist = 0, and *)
(* math.inf when the discriminant is negative or no root is non-negative   *)
SmallerRoot(dist, speed, acc) ==
    LET discriminant == speed * speed + 2 * acc * dist
    IN  IF discriminant < 0 THEN TimeInf
        ELSE LET rad   == Sqrt(discriminant)
                 roots == {Time((rad - speed) * Sign(acc), Abs(acc)),
                           Time((0 - (rad + speed)) * Sign(acc), Abs(acc))}
                 ok    == {t \in roots : t.n >= 0}
             IN  IF ok = {} THEN TimeInf
                 ELSE CHOOSE t \in ok : \A u \in ok : ~TimeLess(u, t)

TimeEq(a, b) == ~TimeLess(a, b) /\ ~TimeLess(b, a)

IsSquare(n) == n < 0 \/ \E r \in 0..MaxRoot : r * r = n

(* C18: for dist > 0 and acc # 0, time_to_cover returns the smaller        *)
(* non-negative root of the quadratic, math.inf when there is none.        *)
CoverSolvesQuadratic ==
    ( /\ kin.called /\ kin.dist > 0 /\ kin.acc # 0
      /\ IsSquare(kin.speed * kin.speed + 2 * kin.acc * kin.dist) )
        => TimeEq(kin.result, SmallerRoot(kin.dist, kin.speed, kin.acc))

(* The same for the accelerations that reach the quadratic branch *)
BigCoverSolvesQuadratic ==
    (kin.called /\ kin.dist > 0 /\ Abs(kin.acc) >= BigAcc)
        => TimeEq(kin.result, SmallerRoot(kin.dist, kin.speed, kin.acc))

(* C19: with acc = 0, time_to_cover is 0 for dist = 0, math.inf for        *)
(* dist > 0 and speed = 0, dist / speed for dist >= 0 and speed > 0, and   *)
(* no larger at a higher speed for a fixed dist > 0; whatever the inputs,  *)
(* the result is not negative.                                             *)
CoverWithoutAcc ==
    kin.called =>
        /\ ~TimeLess(kin.result, Time(0, 1))
        /\ kin.acc = 0 =>
              /\ kin.dist = 0 => kin.result = Time(0, 1)
              /\ (kin.dist > 0 /\ kin.speed = 0) => kin.result = TimeInf
              /\ (kin.dist >= 0 /\ kin.speed > 0)
                    => TimeEq(kin.result, Time(kin.dist, kin.speed))
              /\ kin.dist > 0 =>
                    \A faster \in {v \in CoverSpeeds : v >= kin.speed} :
                        ~TimeLess(kin.result, time_to_cover(kin.dist, faster, 0))

CoverWithoutAccWitness ==
    /\ kin.called /\ kin.acc = 0 /\ kin.dist > 0 /\ kin.speed > 1
    /\ TimeLess(kin.result, time_to_cover(kin.dist, kin.speed - 1, 0))

(* C20: at the first tick at which the time accumulated in front, in the  *)
(* lane cut into, reaches cutin_hold_secs, the commitment is released.     *)
CutinReleasedAfterHold ==
    [][( /\ cutin.started
         /\ cutin'.in_front_after_cutin_secs > cutin.in_front_after_cutin_secs
         /\ cutin'.in_front_after_cutin_secs >= CutinHoldSecs )
            => cutin'.cutting_into # cutin.cutting_into]_vars

(* The tick of actor c that gave d set self._cutting_into to a lane it was *)
(* not committed to before.                                                *)
NewlyCommitted(c, d) ==
    /\ d.cutting_into # None
    /\ <<d.cutting_road, d.cutting_into>> # <<c.cutting_road, c.cutting_into>>

(* Lane lane_idx is not the lane of actor c, an ego agent is behind on it  *)
(* with a back gap strictly inside the band, and crossing into it is       *)
(* feasible.                                                               *)
CutinDue(c, in, lane_idx) ==
    /\ lane_idx # c.lane
    /\ AgentGap(in, lane_idx) \notin {None, 0}
    /\ TargetCutinGap < AgentGap(in, lane_idx) * c.aggressiveness
    /\ AgentGap(in, lane_idx) < TargetCutinGap + 4
    /\ CrossingTimeInto(c.lane, in, lane_idx)

(* C21: a tick commits the actor to a lane it was not committed to only   *)
(* if that lane is another lane of its road, an agent gap is present and   *)
(* strictly inside (target_cutin_gap / aggressiveness, target_cutin_gap +  *)
(* 2), crossing into it is feasible and the draw is below cutin_prob; with *)
(* cutin_prob 0 there is never a commitment, and with cutin_prob 1 a lane  *)
(* that got as far as the test and meets the conditions is committed to.   *)
CutinOnlyWhenDue ==
    cutin.started =>
        /\ cutin.cutin_prob = 0 => cutin.cutting_into = None
        /\ \A in \in LaneWindows(cutin) :
              LET d == PickLane(cutin, in)
              IN  /\ NewlyCommitted(cutin, d) =>
                        /\ d.cutting_road = cutin.road
                        /\ CutinDue(cutin, in, d.cutting_into)
                        /\ in.draw < cutin.cutin_prob
                  /\ cutin.cutin_prob = 10 =>
                        \A l \in d.scanned :
                            CutinDue(cutin, in, l) =>
                                d.cutting_into = l /\ d.cutting_road = cutin.road

CutinOnlyWhenDueWitness ==
    /\ cutin.started /\ cutin.cutin_prob = 5
    /\ cutin.cutting_into \notin {None, cutin.lane}
    /\ cutin.cutting_road = cutin.road
    /\ cutin.target = cutin.cutting_into

(* C22 as stated: a step drops the reserved area of a vehicle that is not *)
(* among the foreign vehicles and keeps the area of one that is.           *)
ReservedDroppedWhenGone ==
    [][StepCall =>
          \A k \in DOMAIN reserved_areas :
              /\ k \notin DOMAIN other_vehicles => k \notin DOMAIN reserved_areas'
              /\ k \in DOMAIN other_vehicles => k \in DOMAIN reserved_areas']_vars

(* C22: a step drops, after its emission attempts, the reserved area of   *)
(* every vehicle that is among the foreign vehicles, and keeps as it is    *)
(* the area of a vehicle that is not; no actor the step emits meets an     *)
(* area that was reserved when the step began.                             *)
ReservedDroppedOnArrival ==
    [][StepCall =>
          \A k \in DOMAIN reserved_areas :
              /\ k \in DOMAIN other_vehicles => k \notin DOMAIN reserved_areas'
              /\ k \notin DOMAIN other_vehicles =>
                     /\ k \in DOMAIN reserved_areas'
                     /\ reserved_areas'[k] = reserved_areas[k]
              /\ \A f \in DOMAIN flows :
                     last_call'.attempts[f].outcome = "emitted" =>
                         ~Intersects(reserved_areas[k],
                                     Bbox(last_call'.attempts[f].pos, TRUE))]_vars

(* C22 witness: a step has dropped the area that made the attempt of sim  *)
(* time 0 fail, and the vehicle it was reserved for is foreign.            *)
ReservedDroppedOnArrivalWitness ==
    /\ last_call.op = "step" /\ phase = "ready"
    /\ reserved_areas = <<>>
    /\ DOMAIN other_vehicles # {}
    /\ \E f \in DOMAIN flows : emit_log[f].reserved0

(* Every position of a flow is one _resolve_flow_pos accepts, and its type *)
(* and route are defined.                                                  *)
FlowValid(flow) == FlowRefsOk(flow) /\ FromFlowOk(flow)

(* C23: a setup that succeeded registered only flows with nothing wrong,  *)
(* a setup that failed registered no flow, and no step after a setup that  *)
(* succeeded ends with an Exception of the emission.                       *)
BadSpecRejectedAtSetup ==
    /\ (last_call.op = "setup" /\ last_call.ok) =>
           \A f \in DOMAIN flows : FlowValid(flows[f])
    /\ (last_call.op = "setup" /\ ~last_call.ok) => flows = <<>>
    /\ last_call.op = "step" =>
           \A f \in DOMAIN last_call.attempts :
               last_call.attempts[f].outcome # "raised"

(* C24: update_route_for_vehicle(id, roads) leaves a managed actor with   *)
(* route roads, route_ind 0, a destination lane on the last road of roads  *)
(* and a table for roads; it leaves a foreign vehicle with route roads.    *)
(* vehicle_dest_road(id) returns the last road of the route of a managed   *)
(* actor or of a foreign vehicle, None for a foreign vehicle without one.  *)
(* A route only changes by update_route_for_vehicle, by the host adding    *)
(* the vehicle, or (for a foreign vehicle) by sync, which leaves every     *)
(* foreign vehicle without route.                                          *)
RouteUpdated ==
    [][/\ ( /\ last_call'.op = "update_route_for_vehicle" /\ calls' = calls + 1
            /\ last_call'.ok ) =>
              LET id    == last_call'.vehicle_id
                  roads == last_call'.roads
              IN  IF id \in ActorIds(my_actors)
                  THEN LET a == ActorOf(my_actors', id)
                       IN  /\ a.route = roads /\ a.route_ind = 0
                           /\ a.dest_lane[1] = Last(roads)
                           /\ roads \in DOMAIN route_lane_lengths'
                  ELSE /\ id \in DOMAIN other_vehicles'
                       /\ other_vehicles'[id].route = roads
       /\ ( /\ last_call'.op = "vehicle_dest_road" /\ calls' = calls + 1
            /\ last_call'.ok ) =>
              LET id == last_call'.vehicle_id
              IN  IF id \in ActorIds(my_actors)
                  THEN last_call'.dest = Last(ActorOf(my_actors, id).route)
                  ELSE /\ id \in DOMAIN other_vehicles
                       /\ last_call'.dest = IF other_vehicles[id].route = <<>> THEN "None"
                                            ELSE Last(other_vehicles[id].route)
       /\ (last_call'.op = "sync" /\ calls' = calls + 1 /\ last_call'.ok) =>
              \A id \in DOMAIN other_vehicles' : other_vehicles'[id].route = <<>>
       /\ \A id \in DOMAIN other_vehicles \cap DOMAIN other_vehicles' :
              other_vehicles'[id].route # other_vehicles[id].route =>
                  last_call'.op \in {"update_route_for_vehicle", "sync"}
       /\ \A id \in ActorIds(my_actors) \cap ActorIds(my_actors') :
              ActorOf(my_actors', id).route # ActorOf(my_actors, id).route =>
                  last_call'.op \in {"update_route_for_vehicle", "host"}]_vars

(* C24 witness: vehicle_dest_road has returned, for a foreign vehicle,    *)
(* the last road of the route update_route_for_vehicle gave it.            *)
RouteUpdatedWitness ==
    /\ last_call.op = "vehicle_dest_road" /\ last_call.ok
    /\ last_call.vehicle_id \in DOMAIN other_vehicles \ ManagedIds
    /\ last_call.dest = "E2"

(* The same for a managed actor given a route that ends on another road *)
RouteUpdatedManaged ==
    /\ last_call.op = "update_route_for_vehicle" /\ last_call.ok
    /\ last_call.vehicle_id \in ManagedIds
    /\ last_call.roads = RouteOpen
    /\ ActorOf(my_actors, last_call.vehicle_id).flow.route = RouteLoop

(* The lanes an actor in lane my_idx passes over to get into target_idx,   *)
(* the target included                                                     *)
LanesInto(my_idx, target_idx) ==
    {i \in CutinLanes : i # my_idx /\ Min(my_idx, target_idx) <= i /\ i <= Max(my_idx, target_idx)}

(* C25: the lane _pick_lane leaves in _target_lane_win is the lane the    *)
(* actor is in, or a lane of its road such that every lane passed over to  *)
(* get into it, itself included, has min(time_left, ttre) above the        *)
(* crossing time, with the windows of that tick.                           *)
TargetIsFeasible ==
    cutin.started =>
        \A in \in LaneWindows(cutin) :
            LET d == PickLane(cutin, in)
            IN  /\ d.target_road = cutin.road
                /\ \A i \in LanesInto(cutin.lane, d.target) :
                       Min(in.windows[i].time_left, in.windows[i].ttre)
                           > CrossTime(cutin.lane, d.target)

(* C25 on the road the commitment was made on *)
TargetIsFeasibleOnRoad ==
    cutin.started =>
        \A in \in LaneWindows(cutin) :
            LET d == PickLane(cutin, in)
            IN  d.target_road = cutin.road =>
                    \A i \in LanesInto(cutin.lane, d.target) :
                       Min(in.windows[i].time_left, in.windows[i].ttre)
                           > CrossTime(cutin.lane, d.target)

(* C26: for an actor with a lane on either side that keeps no commitment  *)
(* and is not within reach of its destination in its own lane, if crossing *)
(* into lane my+1 is not feasible while crossing into lane my-1 is, and    *)
(* the window of lane my-1 has a strictly larger adj_time_left than the    *)
(* window of the current lane, then _pick_lane gets to lane my-1 and makes *)
(* it the target.                                                          *)
ScanCoversBothSides ==
    cutin.started =>
        \A in \in LaneWindows(cutin) :
            LET d  == PickLane(cutin, in)
                my == cutin.lane
            IN  ( /\ my - 1 \in CutinLanes /\ my + 1 \in CutinLanes
                  /\ cutin.cutting_into = None
                  /\ ~(IsDestLane(cutin, my) /\ in.dest # "far")
                  /\ ~CrossingTimeInto(my, in, my + 1)
                  /\ CrossingTimeInto(my, in, my - 1)
                  /\ AdjTimeLeft(my, in, my - 1) > AdjTimeLeft(my, in, my) )
                    => /\ my - 1 \in d.scanned
                       /\ d.target = my - 1

(* The lengths of the chains of linked lanes, one lane per road, from lane *)
(* at index r_ind of the route to the end of the route                     *)
RECURSIVE ChainLengths(_, _, _, _)
ChainLengths(map, route, lane, r_ind) ==
    IF r_ind + 1 >= Len(route) THEN {map.length[lane]}
    ELSE {map.length[lane] + d :
             d \in UNION {ChainLengths(map, route, og, r_ind + 1) :
                             og \in {l \in OutgoingLanes(map, lane) :
                                        l[1] = route[r_ind + 2]}}}

(* C27: every entry (lane, r_ind) of the table of a route is the length   *)
(* of one chain of linked route lanes from that lane to the end of the     *)
(* route, or that length plus 1.                                           *)
TableIsChainLength ==
    lens.cached =>
        \A k \in DOMAIN lens.table :
            \E d \in ChainLengths(lens.map, lens.route, k[1], k[2]) :
                lens.table[k] \in {d, d + 1}

(* C28: a route that has a table keeps it, entry for entry, whatever is   *)
(* called (another _cache_route_lengths for the same roads included), and  *)
(* step, sync and teardown leave all the tables as they are.               *)
TablesWrittenOnce ==
    [][/\ \A route \in DOMAIN route_lane_lengths :
              /\ route \in DOMAIN route_lane_lengths'
              /\ route_lane_lengths'[route] = route_lane_lengths[route]
       /\ last_call'.op \in {"step", "sync", "teardown"} =>
              route_lane_lengths' = route_lane_lengths]_vars

(* C28 witness: update_route_for_vehicle has given a managed actor the    *)
(* route of the first flow again while a third route has a table too.      *)
TablesWrittenOnceWitness ==
    /\ last_call.op = "update_route_for_vehicle" /\ last_call.ok
    /\ last_call.vehicle_id \in ManagedIds
    /\ last_call.roads = RouteLoop
    /\ DOMAIN route_lane_lengths = NewRoutes

(* C29: inside a cushion (time_cush < tau or space_cush < min_space_cush)  *)
(* _compute_acceleration returns an acceleration in [-emergencyDecel, 0],  *)
(* and 0 at speed 0; whatever it returns is in                             *)
(* [-max(decel, emergencyDecel), accel]; when time_cush < tau the result   *)
(* is the time gate's -emergencyDecel * clip(3 (tau - time_cush) / tau),   *)
(* otherwise when space_cush < min_space_cush it is the space gate's       *)
(* -emergencyDecel * clip(2 (min_space_cush - space_cush) /                *)
(* min_space_cush), and only otherwise the PID's.                          *)
InTimeCush ==
    TimeLess(TimeCush(decide.target, decide.win, decide.scene.speed), Time(decide.vtype.tau, 1))

InSpaceCush == SpaceCush(decide.target, decide.win) < Me(decide.scene.speed).min_space_cush

(* -emergencyDecel * clip(3 * (tau - time_cush) / tau, 0, 1) *)
TimeGateBrake ==
    LET time_cush == TimeCush(decide.target, decide.win, decide.scene.speed)
        whole     == decide.vtype.tau * time_cush.d
    IN  Time((0 - decide.vtype.emergencyDecel) * Min(3 * (whole - time_cush.n), whole),
             10 * whole)

(* -emergencyDecel * clip(2 * (min_space_cush - space_cush) / min_space_cush, 0, 1) *)
SpaceGateBrake ==
    LET min_space_cush == Me(decide.scene.speed).min_space_cush
    IN  Time((0 - decide.vtype.emergencyDecel)
                 * Min(2 * (min_space_cush - SpaceCush(decide.target, decide.win)),
                       min_space_cush),
             10 * min_space_cush)

SameFraction(a, b) == a.n * b.d = b.n * a.d

AccelerationGated ==
    decide.phase = "decided" =>
        LET acc   == decide.acceleration
            vtype == decide.vtype
            speed == decide.scene.speed
        IN  /\ acc.d > 0
            /\ (InTimeCush \/ InSpaceCush) =>
                   /\ ~TimeLess(acc, Time(0 - vtype.emergencyDecel, 10))
                   /\ ~TimeLess(Time(0, 1), acc)
                   /\ (speed = 0 => acc.n = 0)
            /\ ~TimeLess(acc, Time(0 - Max(vtype.decel, vtype.emergencyDecel), 10))
            /\ ~TimeLess(Time(vtype.accel, 10), acc)
            /\ (InTimeCush /\ speed > 0) => SameFraction(acc, TimeGateBrake)
            /\ (~InTimeCush /\ InSpaceCush /\ speed > 0) => SameFraction(acc, SpaceGateBrake)
            /\ (~InTimeCush /\ ~InSpaceCush /\ decide.target_speed > speed) => acc.n > 0

(* C29 witness: a moving actor inside both cushions whose two gates ask    *)
(* for different brakings has been given the time gate's.                  *)
AccelerationGatedWitness ==
    /\ decide.phase = "decided" /\ decide.scene.speed > 0
    /\ InTimeCush /\ InSpaceCush
    /\ ~SameFraction(TimeGateBrake, SpaceGateBrake)
    /\ SameFraction(decide.acceleration, TimeGateBrake)
    /\ decide.acceleration.n < 0

(* The other vehicles on the lane of the window, ahead of the actor and    *)
(* behind it                                                               *)
OthersOnLane ==
    {decide.scene.all_states[i] : i \in
        {j \in DOMAIN decide.scene.all_states :
            /\ decide.scene.all_states[j].vehicle_id # Me(decide.scene.speed).vehicle_id
            /\ decide.scene.all_states[j].lane = "same"}}

OthersAhead == {ovs \in OthersOnLane : Me(decide.scene.speed).offset <= ovs.offset}

OthersBehind == OthersOnLane \ OthersAhead

(* max(their back offset - my front offset, 0) *)
FrontGapTo(ovs) ==
    Max((ovs.offset - ovs.half)
            - (Me(decide.scene.speed).offset + Me(decide.scene.speed).half), 0)

(* The least front gap over the vehicles ahead, math.inf without any *)
LeastFrontGap ==
    IF OthersAhead = {} THEN Infinity ELSE SetMin({FrontGapTo(ovs) : ovs \in OthersAhead})

(* time_to_cover(max(front gap - min_space_cush, 0), speed_delta, acc_delta) *)
TtcTo(ovs) ==
    time_to_cover(Max(FrontGapTo(ovs) - Me(decide.scene.speed).min_space_cush, 0),
                  decide.scene.speed - ovs.speed, 0 - ovs.acc)

(* The least of path_len / speed and of these times *)
LeastTimeLeft ==
    LET times == {Div(decide.scene.route_len - Me(decide.scene.speed).offset, decide.scene.speed)}
                    \cup {TtcTo(ovs) : ovs \in OthersAhead}
    IN  CHOOSE t \in times : \A u \in times : ~TimeLess(u, t)

(* The scene of the example: the follower at s = 20 m and 15 m/s, the      *)
(* leader at s = 50 m and 10 m/s, and nobody else on the lane              *)
StraightRoadGap ==
    /\ decide.scene.speed = 30
    /\ \A ovs \in OthersOnLane : ovs.vehicle_id = "lead"
    /\ \E ovs \in OthersOnLane : ovs.offset = 100 /\ ovs.speed = 20

(* What holds of a window whatever the scan did: time_left, ttre without a *)
(* vehicle behind, and the example (gap 26 m, ttc 4.7 s)                   *)
WindowTimes ==
    /\ SameFraction(decide.win.time_left, LeastTimeLeft)
    /\ (OthersBehind = {} => decide.win.ttre = TimeInf)
    /\ StraightRoadGap =>
          /\ decide.win.gap = 52
          /\ decide.scene.route_len = 200 => SameFraction(decide.win.time_left, Time(47, 10))

EgosBehind == {ovs \in OthersBehind : ovs.role = "EgoAgent"}

(* max(my back offset - their front offset - min_space_cush, 0) *)
BackGapTo(ovs) ==
    Max((Me(decide.scene.speed).offset - Me(decide.scene.speed).half)
            - (ovs.offset + ovs.half) - Me(decide.scene.speed).min_space_cush, 0)

AgentGapIsSmallest ==
    decide.phase \in {"windowed", "decided"} =>
        /\ (decide.win.agent_gap = None) <=> (EgosBehind = {})
        /\ EgosBehind # {} =>
              decide.win.agent_gap = SetMin({BackGapTo(ovs) : ovs \in EgosBehind})

(* C32: the window _pick_lane leaves in _target_lane_win is one that this  *)
(* tick's _compute_lane_windows built: it is the window, in this tick's    *)
(* _lane_windows, of a lane of the road the actor is on, also while a      *)
(* cut-in commitment is being kept.                                        *)
TargetWindowIsFresh ==
    cutin.started =>
        \A in \in LaneWindows(cutin) :
            LET d == PickLane(cutin, in)
            IN  /\ d.target_road = cutin.road
                /\ d.target_win = in.windows[d.target]

(* C32 on the road of the commitment: the kept window against this tick's  *)
(* window of the same lane                                                 *)
KeptWindowIsFresh ==
    cutin.started /\ cutin.cutting_into # None /\ cutin.cutting_road = cutin.road =>
        \A in \in LaneWindows(cutin) :
            LET d == PickLane(cutin, in)
            IN  d.target_win = in.windows[d.target]

(* C32 without a commitment *)
UncommittedWindowIsFresh ==
    cutin.started /\ cutin.cutting_into = None =>
        \A in \in LaneWindows(cutin) :
            LET d == PickLane(cutin, in)
            IN  d.target_road = cutin.road /\ d.target_win = in.windows[d.target]

(* C33: every bounding box an emission check is given for a managed actor  *)
(* is the box of the pose the actor has at that check, after any commits   *)
(* of steps, state overwrites of syncs and teleports of endless traffic.   *)
BoxIsOfCurrentPose ==
    \A i \in DOMAIN boxes.consulted : boxes.consulted[i].place = boxes.consulted[i].pose

(* C33 witness: a step() has answered an emission check from the cache for *)
(* an actor that had moved on from the place it departed at.               *)
BoxIsOfCurrentPoseWitness ==
    /\ boxes.phase = "ready" /\ boxes.poses # <<>>
    /\ \E i \in DOMAIN boxes.consulted :
          /\ boxes.consulted[i].hit
          /\ boxes.consulted[i].place # DepartPlace
          /\ boxes.consulted[i].place = boxes.consulted[i].pose

(* C34: _actors_created never decreases, and every vehicle id a setup or a *)
(* step gives to an actor it emits carries a number above every number     *)
(* handed out before the call; so the ids of the emitted actors differ     *)
(* from one another over the whole life of the provider, whatever flows    *)
(* share a vType, whatever attempts were rejected and whatever teardown    *)
(* did, and no emission replaces a managed actor.                          *)
EmittedIdsAreNew ==
    [][/\ actors_created' >= actors_created
       /\ EmissionCall =>
             LET emitted == {f \in DOMAIN last_call'.attempts :
                                last_call'.attempts[f].outcome = "emitted"}
             IN  /\ \A f \in emitted :
                        /\ last_call'.attempts[f].id[2] > actors_created
                        /\ last_call'.attempts[f].id[2] <= actors_created'
                        /\ last_call'.attempts[f].id \notin ActorIds(my_actors)
                 /\ \A f \in emitted, g \in emitted :
                        f # g => last_call'.attempts[f].id # last_call'.attempts[g].id]_vars

(* C34 witness: a step has emitted an actor numbered 3 or more into a      *)
(* provider that manages no other actor: the numbers before it went to     *)
(* rejected attempts or to actors that teardown or the end of their route  *)
(* took away.                                                              *)
EmittedIdsAreNewWitness ==
    /\ last_call.op = "step" /\ Len(my_actors) = 1
    /\ \E f \in DOMAIN last_call.attempts :
          /\ last_call.attempts[f].outcome = "emitted"
          /\ last_call.attempts[f].id[2] >= 3
          /\ last_call.attempts[f].id \in ActorIds(my_actors)

(* C35: no vehicle id is at once the id of a managed actor and the id of a *)
(* foreign vehicle, so that _all_states holds one state for each vehicle   *)
(* id.                                                                     *)
ManagedNotForeign ==
    /\ ManagedIds \cap DOMAIN other_vehicles = {}
    /\ Cardinality({vs.vehicle_id : vs \in AllStates(my_actors, other_vehicles)})
          = Len(my_actors) + Cardinality(DOMAIN other_vehicles)

(* C35 for the states a sync leaves *)
ManagedNotForeignAfterSync ==
    last_call.op = "sync" /\ last_call.ok => ManagedIds \cap DOMAIN other_vehicles = {}

(* C36: the route_ind of every managed actor lies between -1 and the last  *)
(* index of its route, and an actor that is on its route with a route_ind  *)
(* of 0 or more is on the road route[route_ind] (sequences of the model    *)
(* count from 1).                                                          *)
RouteIndIsPosition ==
    \A i \in DOMAIN my_actors :
        LET a == my_actors[i]
        IN  /\ 0 - 1 <= a.route_ind
            /\ a.route_ind <= Len(a.route) - 1
            /\ (~a.off_route /\ a.route_ind >= 0)
                  => a.lane[1] = a.route[a.route_ind + 1]

(* C36, the lower bound alone *)
RouteIndAtLeastMinusOne ==
    \A i \in DOMAIN my_actors : my_actors[i].route_ind >= 0 - 1

(* C37: every sync completes: none ends at a failed assertion, whatever    *)
(* vehicles the provider state it is given holds.                          *)
SyncCompletes ==
    last_call.op = "sync" => last_call.ok

(* C37 for the provider states in which every vehicle of this provider's   *)
(* source was managed when the sync was called: the sync ends at a failed  *)
(* assertion only if such a vehicle was not.                               *)
SyncFailsOnUnmanagedOwnSource ==
    [][(last_call'.op = "sync" /\ last_call.op # "sync" /\ ~last_call'.ok)
          => \E i \in DOMAIN last_call'.incoming :
                 /\ last_call'.incoming[i].source = SourceStr
                 /\ last_call'.incoming[i].vehicle_id \notin ManagedIds]_vars

(* C38: the decisions of an actor whose speed is 0 end without an error:   *)
(* the time to the end of its route is infinite, which is the time_left   *)
(* of the window of its lane when no vehicle is ahead on it, and the       *)
(* acceleration it is given is 0 inside a cushion and the PID's otherwise. *)
StoppedActorDecides ==
    (decide.phase # "none" /\ decide.scene.speed = 0) =>
        /\ decide.phase # "raised"
        /\ (decide.phase \in {"windowed", "decided"} /\ OthersAhead = {})
              => decide.win.time_left = TimeInf
        /\ decide.phase = "decided" =>
              /\ (InTimeCush \/ InSpaceCush) => decide.acceleration.n = 0
              /\ (~InTimeCush /\ ~InSpaceCush /\ decide.target_speed > 0)
                    => decide.acceleration.n > 0

(* C38 when a division by the speed has a numpy operand *)
StoppedActorDecidesWithNumpy ==
    (decide.phase # "none" /\ decide.scene.speed = 0 /\ decide.scene.zero_div = "inf") =>
        /\ decide.phase # "raised"
        /\ (decide.phase \in {"windowed", "decided"} /\ OthersAhead = {})
              => decide.win.time_left = TimeInf
        /\ decide.phase = "decided" =>
              /\ (InTimeCush \/ InSpaceCush) => decide.acceleration.n = 0
              /\ (~InTimeCush /\ ~InSpaceCush /\ decide.target_speed > 0)
                    => decide.acceleration.n > 0

(* C39: the acceleration an actor reads back after a step is the one the   *)
(* step gave it, sign included: the change of its speed over the step      *)
(* divided by dt, negative after a braking.  (Without endless_traffic, so  *)
(* that no step sets an actor back to its depart speed.)                   *)
ReadBackIsCommanded ==
    [][(StepCall /\ last_call'.ok /\ ~endless_traffic) =>
          \A id \in ManagedIds \cap ActorIds(my_actors') :
              Acceleration(ActorOf(my_actors', id)) * DT
                  = ActorOf(my_actors', id).state.speed
                        - ActorOf(my_actors, id).state.speed]_vars

(* C39 without the sign: the acceleration read back is the size of the     *)
(* change of the speed, times dt * dt                                      *)
ReadBackIsSizeOfCommanded ==
    [][(StepCall /\ last_call'.ok /\ ~endless_traffic) =>
          \A id \in ManagedIds \cap ActorIds(my_actors') :
              Acceleration(ActorOf(my_actors', id))
                  = DT * Abs(ActorOf(my_actors', id).state.speed
                                 - ActorOf(my_actors, id).state.speed)]_vars

====
